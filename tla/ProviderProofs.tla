--------------------------- MODULE ProviderProofs ---------------------------
(***************************************************************************)
(* Theorems of QuickBooksGrant, for any authorizations, requests and       *)
(* workspaces, and any number of refreshes and faults, and of              *)
(* MarketingMeasurements and ReportSources, for any resources, requests,   *)
(* lapses, connections, stores and reports.                                *)
(***************************************************************************)
EXTENDS QuickBooksGrant, MarketingMeasurements, ReportSources, FiniteSetTheorems, TLAPS

-----------------------------------------------------------------------------
(* The inductive invariant of a QuickBooks authorization.                  *)

Trying == {"found", "leased", "checked", "both", "saving", "saved"}
Unleased == {"idle", "away", "declined", "found"}

\* A row whose callback has not begun or not gone on is a mere attempt: nobody
\* else can have taken it for the company's.
Attempts ==
    \A a \in Authorizations :
        /\ grant[a].pc = "idle" => accounts[a].status = "absent"
        /\ grant[a].pc \in {"idle", "away", "declined"} =>
              /\ accounts[a].status \in {"absent", "pending", "revoked"}
              /\ ~accounts[a].company /\ accounts[a].namespace \in {a, Nobody}

\* What a callback found is the company's row until it is removed, and rows are
\* never created again.
TargetsKnown ==
    \A a \in Authorizations :
        LET b == grant[a].target IN
        /\ grant[a].pc \in Trying => b \in Authorizations
        /\ grant[a].pc \in Unleased => ~grant[a].other
        /\ grant[a].other => b \in Authorizations \ {a}
        /\ b \in Authorizations \ {a} => grant[b].pc # "idle"
        /\ \/ grant[a].pc \in {"found", "leased", "checked", "both"} /\ b # a
           \/ grant[a].pc = "saving"
           => accounts[b].company \/ accounts[b].status \in {"absent", "revoked"}

\* Whoever owns a lease knows, and has not given it back.
LeasesKnown ==
    \A r \in Authorizations :
        /\ \A a \in Authorizations : accounts[r].owner = a =>
              /\ grant[a].pc \notin Unleased \cup {"ended"}
              /\ \/ r = a /\ grant[a].own
                 \/ r = grant[a].target /\ grant[a].other /\ grant[a].pc # "released"
        /\ \A k \in Keepers : accounts[r].owner = k =>
              keeper[k].row = r /\ keeper[k].leased /\ keeper[k].pc \notin {"idle", "ended"}

\* A refresh is of the token it began with.  A row refreshed has been connected.
Refreshes ==
    \A k \in Keepers :
        /\ keeper[k].pc = "idle" => ~keeper[k].leased
        /\ keeper[k].pc \in {"reread", "exchanged"} => keeper[k].token \in Tokens
        /\ keeper[k].pc = "exchanged" =>
              keeper[k].fresh \in Tokens /\ keeper[k].fresh.by = keeper[k].token.by
        /\ keeper[k].pc # "idle" =>
              keeper[k].row \in Authorizations /\ grant[keeper[k].row].pc # "idle"
        /\ keeper[k].pc \in {"refresh", "reread", "exchanged"} =>
              grant[keeper[k].row].pc \notin {"idle", "away", "declined"}

\* No token of an authorization exists before it is saved.
Unissued ==
    \A a \in Authorizations : grant[a].pc \in Unleased \cup (Trying \ {"saved"}) =>
        /\ issued[a] = 0
        /\ \A r \in Authorizations : tokens[r].by # a
        /\ \A k \in Keepers : keeper[k].pc \in {"reread", "exchanged"} => keeper[k].token.by # a

ConnectedIsOfCompany ==
    \A r \in Authorizations : accounts[r].status = "connected" => accounts[r].company

\* As long as nothing fails, leases are kept from their taking to their return,
\* and what was read under one stays true.
Undisturbed ==
    /\ \A a \in Authorizations : grant[a].pc # "dead"
    /\ \A k \in Keepers : keeper[k].pc # "dead"
    /\ \A r \in Authorizations : accounts[r].live <=> accounts[r].owner # Nobody
    /\ \A a \in Authorizations :
          grant[a].pc \in (Trying \ {"found"}) => accounts[a].owner = a
    /\ \A k \in Keepers : keeper[k].pc \in {"refresh", "reread", "exchanged"} =>
          LET r == keeper[k].row IN
          /\ keeper[k].leased => accounts[r].owner = k
          /\ keeper[k].pc \in {"reread", "exchanged"} =>
                /\ keeper[k].leased /\ accounts[r].status = "connected"
                /\ tokens[r] = keeper[k].token /\ accounts[r].namespace = keeper[k].namespace
          /\ keeper[k].pc = "exchanged" => keeper[k].fresh.nth = issued[keeper[k].token.by]

GrantInv ==
    /\ GrantTypeOK /\ TokensOfTheirGrant /\ RemovedKeepsNothing /\ OneRowPerCompany
    /\ Attempts /\ TargetsKnown /\ LeasesKnown /\ Refreshes /\ Unissued
    /\ ConnectedIsOfCompany /\ NewestTokenIsKept
    /\ grantFaults = 0 => Undisturbed

-----------------------------------------------------------------------------
(* What a step does to one row, one callback, one request.                 *)

RowBecomes(b, status, company, namespace, owner, live) ==
    /\ accounts'[b].status = status /\ accounts'[b].company = company
    /\ accounts'[b].namespace = namespace
    /\ accounts'[b].owner = owner /\ accounts'[b].live = live
    /\ \A z \in Authorizations \ {b} : accounts'[z] = accounts[z]

TokenBecomes(b, token) ==
    tokens'[b] = token /\ \A z \in Authorizations \ {b} : tokens'[z] = tokens[z]

CallbackBecomes(a, pc, target, own, other) ==
    /\ grant'[a].pc = pc /\ grant'[a].target = target
    /\ grant'[a].own = own /\ grant'[a].other = other
    /\ \A z \in Authorizations \ {a} : grant'[z] = grant[z]

RequestBecomes(k, pc, row, token, namespace, leased) ==
    /\ keeper'[k].pc = pc /\ keeper'[k].row = row /\ keeper'[k].leased = leased
    /\ keeper'[k].token = token /\ keeper'[k].namespace = namespace
    /\ \A z \in Keepers \ {k} : keeper'[z] = keeper[z]

-----------------------------------------------------------------------------
(* Types.                                                                  *)

Steps == {"idle", "away", "declined", "found", "leased", "checked", "both", "saving", "saved",
          "failed", "half", "marked", "released", "ended", "dead"}

RequestSteps == {"idle", "refresh", "reread", "exchanged", "remove", "removing", "releasing",
                 "ended", "dead"}

LEMMA GoesIsTyped ==
  ASSUME GrantTypeOK, NEW a \in Authorizations, NEW pc \in Steps, GrantGoes(a, pc)
  PROVE  grant' \in [Authorizations -> CallbackStates]
BY DEF GrantTypeOK, CallbackStates, Steps, GrantGoes

LEMMA LeasedIsTyped ==
  ASSUME GrantTypeOK, NEW a \in Authorizations,
         \/ grant' = [grant EXCEPT ![a].pc = "leased", ![a].own = TRUE]
         \/ grant' = [grant EXCEPT ![a].pc = "both", ![a].other = TRUE]
  PROVE  grant' \in [Authorizations -> CallbackStates]
<1>1. \/ grant' = [grant EXCEPT ![a] = [grant[a] EXCEPT !.pc = "leased", !.own = TRUE]]
      \/ grant' = [grant EXCEPT ![a] = [grant[a] EXCEPT !.pc = "both", !.other = TRUE]]
  BY DEF GrantTypeOK
<1>2. grant[a] \in CallbackStates
  BY DEF GrantTypeOK
<1>3. [grant[a] EXCEPT !.pc = "leased", !.own = TRUE] \in CallbackStates
  BY <1>2, Zenon DEF CallbackStates
<1>4. [grant[a] EXCEPT !.pc = "both", !.other = TRUE] \in CallbackStates
  BY <1>2, Zenon DEF CallbackStates
<1> QED BY <1>1, <1>3, <1>4 DEF GrantTypeOK

LEMMA KeeperGoesIsTyped ==
  ASSUME GrantTypeOK, NEW k \in Keepers, NEW pc \in RequestSteps, KeeperGoes(k, pc)
  PROVE  keeper' \in [Keepers -> KeeperStates]
BY DEF GrantTypeOK, KeeperStates, RequestSteps, KeeperGoes

LEMMA KeeperLeasedIsTyped ==
  ASSUME GrantTypeOK, NEW k \in Keepers, keeper' = [keeper EXCEPT ![k].leased = TRUE]
  PROVE  keeper' \in [Keepers -> KeeperStates]
BY ZenonT(60) DEF GrantTypeOK, KeeperStates

\* A lease taken, given back or run out; a new status.
LEMMA LeaseIsTyped ==
  ASSUME GrantTypeOK, NEW b, NEW p \in Owners \cup {Nobody}, NEW live \in BOOLEAN,
         accounts' = [accounts EXCEPT ![b].owner = p, ![b].live = live]
  PROVE  accounts' \in [Authorizations -> AccountRows]
<1>1. CASE b \in Authorizations
  <2>1. accounts' = [accounts EXCEPT ![b] = [accounts[b] EXCEPT !.owner = p, !.live = live]]
    BY <1>1 DEF GrantTypeOK
  <2>2. [accounts[b] EXCEPT !.owner = p, !.live = live] \in AccountRows
    BY <1>1 DEF GrantTypeOK, AccountRows
  <2> QED BY <2>1, <2>2 DEF GrantTypeOK
<1>2. CASE b \notin Authorizations
  BY <1>2 DEF GrantTypeOK
<1> QED BY <1>1, <1>2

LEMMA ReturnIsTyped ==
  ASSUME GrantTypeOK, NEW p, NEW b, GiveBack(p, b)
  PROVE  accounts' \in [Authorizations -> AccountRows]
<1>1. CASE accounts[b].owner = p
  BY <1>1, LeaseIsTyped DEF GiveBack
<1>2. CASE accounts[b].owner # p
  BY <1>2 DEF GiveBack, GrantTypeOK
<1> QED BY <1>1, <1>2

LEMMA StatusIsTyped ==
  ASSUME GrantTypeOK, NEW b, NEW status \in {"pending", "connected", "error", "revoked"},
         accounts' = [accounts EXCEPT ![b].status = status]
  PROVE  accounts' \in [Authorizations -> AccountRows]
BY DEF GrantTypeOK, AccountRows

LEMMA DropIsTyped ==
  ASSUME GrantTypeOK, NEW a \in Authorizations, DropRow(a)
  PROVE  /\ accounts' \in [Authorizations -> AccountRows]
         /\ tokens' \in [Authorizations -> Tokens \cup {NoToken}]
BY DEF GrantTypeOK, AccountRows, DropRow, NoAccount

LEMMA SaveIsTyped ==
  ASSUME GrantTypeOK, NEW a \in Authorizations, NEW b,
         tokens' = [tokens EXCEPT ![b] = [by |-> a, nth |-> 0]]
  PROVE  tokens' \in [Authorizations -> Tokens \cup {NoToken}]
<1>1. [by |-> a, nth |-> 0] \in Tokens
  BY GrantAssumption DEF Tokens
<1> QED BY <1>1 DEF GrantTypeOK

LEMMA FaultIsTyped ==
  ASSUME GrantTypeOK, Fault \/ UNCHANGED grantFaults
  PROVE  grantFaults' \in 0..MaxGrantFaults
BY GrantAssumption DEF GrantTypeOK, Fault

LEMMA AuthorizeCompanyType ==
  ASSUME GrantTypeOK, NEW a \in Authorizations, AuthorizeCompany(a)
  PROVE  GrantTypeOK'
<1>1. accounts' \in [Authorizations -> AccountRows]
  BY DEF AuthorizeCompany, GrantTypeOK, AccountRows, NoAccount
<1>2. grant' \in [Authorizations -> CallbackStates]
  BY GoesIsTyped DEF Steps, AuthorizeCompany
<1>3. UNCHANGED << home, tokens, issued, keeper, grantFaults >>
  BY DEF AuthorizeCompany
<1> QED BY <1>1, <1>2, <1>3 DEF GrantTypeOK

LEMMA NotAvailableType ==
  ASSUME GrantTypeOK, NEW a \in Authorizations, NotAvailable(a)
  PROVE  GrantTypeOK'
<1>1. grant' \in [Authorizations -> CallbackStates]
  BY GoesIsTyped DEF Steps, NotAvailable
<1>2. UNCHANGED << home, accounts, tokens, issued, keeper, grantFaults >>
  BY DEF NotAvailable
<1> QED BY <1>1, <1>2 DEF GrantTypeOK

LEMMA DeclinesType ==
  ASSUME GrantTypeOK, NEW a \in Authorizations, Declines(a)
  PROVE  GrantTypeOK'
<1>1. grant' \in [Authorizations -> CallbackStates]
  BY GoesIsTyped DEF Steps, Declines
<1>2. UNCHANGED << home, accounts, tokens, issued, keeper, grantFaults >>
  BY DEF Declines
<1> QED BY <1>1, <1>2 DEF GrantTypeOK

LEMMA CheckAttemptType ==
  ASSUME GrantTypeOK, NEW a \in Authorizations, CheckAttempt(a)
  PROVE  GrantTypeOK'
<1>1. grant' \in [Authorizations -> CallbackStates]
  BY GoesIsTyped DEF Steps, CheckAttempt
<1>2. UNCHANGED << home, accounts, tokens, issued, keeper, grantFaults >>
  BY DEF CheckAttempt
<1> QED BY <1>1, <1>2 DEF GrantTypeOK

LEMMA DropDeclinedType ==
  ASSUME GrantTypeOK, NEW a \in Authorizations, DropDeclined(a)
  PROVE  GrantTypeOK'
<1>1. accounts' \in [Authorizations -> AccountRows]
  BY DropIsTyped DEF DropDeclined
<1>2. tokens' \in [Authorizations -> Tokens \cup {NoToken}]
  BY DropIsTyped DEF DropDeclined
<1>3. grant' \in [Authorizations -> CallbackStates]
  BY GoesIsTyped DEF Steps, DropDeclined
<1>4. UNCHANGED << home, issued, keeper, grantFaults >>
  BY DEF DropDeclined
<1> QED BY <1>1, <1>2, <1>3, <1>4 DEF GrantTypeOK

LEMMA ExchangeType ==
  ASSUME GrantTypeOK, NEW a \in Authorizations, Exchange(a)
  PROVE  GrantTypeOK'
<1>1. CASE grant' = [grant EXCEPT ![a].pc = "found", ![a].target = a]
  <2>1. grant' = [grant EXCEPT ![a] = [grant[a] EXCEPT !.pc = "found", !.target = a]]
    BY <1>1 DEF GrantTypeOK
  <2>2. [grant[a] EXCEPT !.pc = "found", !.target = a] \in CallbackStates
    BY DEF GrantTypeOK, CallbackStates
  <2> QED BY <2>1, <2>2 DEF Exchange, GrantTypeOK
<1>2. ASSUME NEW b \in Authorizations, OfCompany(b),
             grant' = [grant EXCEPT ![a].pc = "found", ![a].target = b,
                          ![a].seen = accounts[b].status, ![a].was = accounts[b].namespace]
      PROVE  GrantTypeOK'
  <2>1. /\ accounts[b].status \in {"none", "pending", "connected", "error"}
        /\ accounts[b].namespace \in Authorizations \cup {Nobody}
    BY <1>2 DEF OfCompany, GrantTypeOK, AccountRows
  <2> DEFINE found == [grant[a] EXCEPT !.pc = "found", !.target = b,
                                       !.seen = accounts[b].status, !.was = accounts[b].namespace]
  <2>2. grant' = [grant EXCEPT ![a] = found]
    BY <1>2 DEF GrantTypeOK
  <2>3. found \in CallbackStates
    BY <2>1, ZenonT(60) DEF GrantTypeOK, CallbackStates
  <2> HIDE DEF found
  <2> QED BY <2>2, <2>3 DEF Exchange, GrantTypeOK
<1>3. CASE GrantGoes(a, "failed")
  BY <1>3, GoesIsTyped DEF Exchange, GrantTypeOK, Steps
<1> QED BY <1>1, <1>2, <1>3 DEF Exchange

LEMMA LeaseOwnRowType ==
  ASSUME GrantTypeOK, NEW a \in Authorizations, LeaseOwnRow(a)
  PROVE  GrantTypeOK'
<1>1. accounts' \in [Authorizations -> AccountRows]
  BY LeaseIsTyped DEF LeaseOwnRow, TakeRowLease, Owners, GrantTypeOK
<1>2. grant' \in [Authorizations -> CallbackStates]
  BY GoesIsTyped, LeasedIsTyped DEF LeaseOwnRow, GrantTypeOK, Steps
<1>3. UNCHANGED << home, tokens, issued, keeper, grantFaults >>
  BY DEF LeaseOwnRow
<1> QED BY <1>1, <1>2, <1>3 DEF GrantTypeOK

LEMMA LeaseTargetType ==
  ASSUME GrantTypeOK, NEW a \in Authorizations, LeaseTarget(a)
  PROVE  GrantTypeOK'
<1>1. accounts' \in [Authorizations -> AccountRows]
  BY LeaseIsTyped DEF LeaseTarget, TakeRowLease, Owners, GrantTypeOK
<1>2. grant' \in [Authorizations -> CallbackStates]
  BY GoesIsTyped, LeasedIsTyped DEF LeaseTarget, GrantTypeOK, Steps
<1>3. UNCHANGED << home, tokens, issued, keeper, grantFaults >>
  BY DEF LeaseTarget
<1> QED BY <1>1, <1>2, <1>3 DEF GrantTypeOK

LEMMA WriteMetadataType ==
  ASSUME GrantTypeOK, NEW a \in Authorizations, WriteMetadata(a)
  PROVE  GrantTypeOK'
<1>1. accounts' \in [Authorizations -> AccountRows]
  BY DEF WriteMetadata, GrantTypeOK, AccountRows
<1>2. grant' \in [Authorizations -> CallbackStates]
  BY GoesIsTyped DEF Steps, WriteMetadata
<1>3. UNCHANGED << home, tokens, issued, keeper, grantFaults >>
  BY DEF WriteMetadata
<1> QED BY <1>1, <1>2, <1>3 DEF GrantTypeOK

LEMMA SaveTokensType ==
  ASSUME GrantTypeOK, NEW a \in Authorizations, SaveTokens(a)
  PROVE  GrantTypeOK'
<1>1. accounts' \in [Authorizations -> AccountRows]
  BY StatusIsTyped DEF SaveTokens, GrantTypeOK
<1>2. tokens' \in [Authorizations -> Tokens \cup {NoToken}]
  BY SaveIsTyped DEF SaveTokens, GrantTypeOK
<1>3. grant' \in [Authorizations -> CallbackStates]
  BY GoesIsTyped DEF Steps, SaveTokens
<1>4. UNCHANGED << home, issued, keeper, grantFaults >>
  BY DEF SaveTokens
<1> QED BY <1>1, <1>2, <1>3, <1>4 DEF GrantTypeOK

LEMMA DropAttemptType ==
  ASSUME GrantTypeOK, NEW a \in Authorizations, DropAttempt(a)
  PROVE  GrantTypeOK'
<1>1. accounts' \in [Authorizations -> AccountRows]
  BY DropIsTyped DEF DropAttempt, GrantTypeOK
<1>2. tokens' \in [Authorizations -> Tokens \cup {NoToken}]
  BY DropIsTyped DEF DropAttempt, GrantTypeOK
<1>3. grant' \in [Authorizations -> CallbackStates]
  BY GoesIsTyped DEF Steps, DropAttempt
<1>4. UNCHANGED << home, issued, keeper, grantFaults >>
  BY DEF DropAttempt
<1> QED BY <1>1, <1>2, <1>3, <1>4 DEF GrantTypeOK

LEMMA MarkTargetType ==
  ASSUME GrantTypeOK, NEW a \in Authorizations, MarkTarget(a)
  PROVE  GrantTypeOK'
<1>1. accounts' \in [Authorizations -> AccountRows]
  BY StatusIsTyped DEF MarkTarget, GrantTypeOK
<1>2. grant' \in [Authorizations -> CallbackStates]
  BY GoesIsTyped DEF Steps, MarkTarget
<1>3. UNCHANGED << home, tokens, issued, keeper, grantFaults >>
  BY DEF MarkTarget
<1> QED BY <1>1, <1>2, <1>3 DEF GrantTypeOK

LEMMA MarkAttemptType ==
  ASSUME GrantTypeOK, NEW a \in Authorizations, MarkAttempt(a)
  PROVE  GrantTypeOK'
<1>1. accounts' \in [Authorizations -> AccountRows]
  BY StatusIsTyped DEF MarkAttempt, GrantTypeOK
<1>2. grant' \in [Authorizations -> CallbackStates]
  BY GoesIsTyped DEF Steps, MarkAttempt
<1>3. UNCHANGED << home, tokens, issued, keeper, grantFaults >>
  BY DEF MarkAttempt
<1> QED BY <1>1, <1>2, <1>3 DEF GrantTypeOK

LEMMA ReleaseTargetType ==
  ASSUME GrantTypeOK, NEW a \in Authorizations, ReleaseTarget(a)
  PROVE  GrantTypeOK'
<1>1. accounts' \in [Authorizations -> AccountRows]
  BY ReturnIsTyped DEF ReleaseTarget, GrantTypeOK
<1>2. grant' \in [Authorizations -> CallbackStates]
  BY GoesIsTyped DEF Steps, ReleaseTarget
<1>3. UNCHANGED << home, tokens, issued, keeper, grantFaults >>
  BY DEF ReleaseTarget
<1> QED BY <1>1, <1>2, <1>3 DEF GrantTypeOK

LEMMA ReleaseAttemptType ==
  ASSUME GrantTypeOK, NEW a \in Authorizations, ReleaseAttempt(a)
  PROVE  GrantTypeOK'
<1>1. accounts' \in [Authorizations -> AccountRows]
  BY ReturnIsTyped DEF ReleaseAttempt, GrantTypeOK
<1>2. grant' \in [Authorizations -> CallbackStates]
  BY GoesIsTyped DEF Steps, ReleaseAttempt
<1>3. UNCHANGED << home, tokens, issued, keeper, grantFaults >>
  BY DEF ReleaseAttempt
<1> QED BY <1>1, <1>2, <1>3 DEF GrantTypeOK

LEMMA GrantThrowsType ==
  ASSUME GrantTypeOK, NEW a \in Authorizations, GrantThrows(a)
  PROVE  GrantTypeOK'
<1>1. grant' \in [Authorizations -> CallbackStates]
  BY GoesIsTyped DEF Steps, GrantThrows
<1>2. grantFaults' \in 0..MaxGrantFaults
  BY FaultIsTyped DEF GrantThrows
<1>3. UNCHANGED << home, accounts, tokens, issued, keeper >>
  BY DEF GrantThrows
<1> QED BY <1>1, <1>2, <1>3 DEF GrantTypeOK

LEMMA SaveAnswerLostType ==
  ASSUME GrantTypeOK, NEW a \in Authorizations, SaveAnswerLost(a)
  PROVE  GrantTypeOK'
<1>1. accounts' \in [Authorizations -> AccountRows]
  BY StatusIsTyped DEF SaveAnswerLost
<1>2. tokens' \in [Authorizations -> Tokens \cup {NoToken}]
  BY SaveIsTyped DEF SaveAnswerLost
<1>3. grant' \in [Authorizations -> CallbackStates]
  BY GoesIsTyped DEF Steps, SaveAnswerLost
<1>4. grantFaults' \in 0..MaxGrantFaults
  BY FaultIsTyped DEF SaveAnswerLost
<1>5. UNCHANGED << home, issued, keeper >>
  BY DEF SaveAnswerLost
<1> QED BY <1>1, <1>2, <1>3, <1>4, <1>5 DEF GrantTypeOK

LEMMA GrantDiesType ==
  ASSUME GrantTypeOK, NEW a \in Authorizations, GrantDies(a)
  PROVE  GrantTypeOK'
<1>1. grant' \in [Authorizations -> CallbackStates]
  BY GoesIsTyped DEF Steps, GrantDies
<1>2. grantFaults' \in 0..MaxGrantFaults
  BY FaultIsTyped DEF GrantDies
<1>3. UNCHANGED << home, accounts, tokens, issued, keeper >>
  BY DEF GrantDies
<1> QED BY <1>1, <1>2, <1>3 DEF GrantTypeOK

LEMMA StartRefreshType ==
  ASSUME GrantTypeOK, NEW k \in Keepers, NEW r \in Authorizations, StartRefresh(k, r)
  PROVE  GrantTypeOK'
<1>1. [keeper[k] EXCEPT !.pc = "refresh", !.row = r] \in KeeperStates
  BY DEF GrantTypeOK, KeeperStates
<1>2. keeper' = [keeper EXCEPT ![k] = [keeper[k] EXCEPT !.pc = "refresh", !.row = r]]
  BY DEF StartRefresh, GrantTypeOK
<1>3. UNCHANGED << home, accounts, tokens, issued, grant, grantFaults >>
  BY DEF StartRefresh
<1> QED BY <1>1, <1>2, <1>3 DEF GrantTypeOK

LEMMA StartRemovalType ==
  ASSUME GrantTypeOK, NEW k \in Keepers, NEW r \in Authorizations, StartRemoval(k, r)
  PROVE  GrantTypeOK'
<1>1. [keeper[k] EXCEPT !.pc = "remove", !.row = r] \in KeeperStates
  BY DEF GrantTypeOK, KeeperStates
<1>2. keeper' = [keeper EXCEPT ![k] = [keeper[k] EXCEPT !.pc = "remove", !.row = r]]
  BY DEF StartRemoval, GrantTypeOK
<1>3. UNCHANGED << home, accounts, tokens, issued, grant, grantFaults >>
  BY DEF StartRemoval
<1> QED BY <1>1, <1>2, <1>3 DEF GrantTypeOK

LEMMA LeaseForKeeperType ==
  ASSUME GrantTypeOK, NEW k \in Keepers, LeaseForKeeper(k)
  PROVE  GrantTypeOK'
<1>1. accounts' \in [Authorizations -> AccountRows]
  BY LeaseIsTyped DEF LeaseForKeeper, TakeRowLease, Owners, GrantTypeOK
<1>2. keeper' \in [Keepers -> KeeperStates]
  BY KeeperGoesIsTyped, KeeperLeasedIsTyped DEF LeaseForKeeper, RequestSteps
<1>3. UNCHANGED << home, tokens, issued, grant, grantFaults >>
  BY DEF LeaseForKeeper
<1> QED BY <1>1, <1>2, <1>3 DEF GrantTypeOK

LEMMA RereadType ==
  ASSUME GrantTypeOK, NEW k \in Keepers, NEW r \in Authorizations, keeper[k].row = r, Reread(k)
  PROVE  GrantTypeOK'
<1>1. CASE KeeperGoes(k, "releasing")
  BY <1>1, KeeperGoesIsTyped DEF Reread, GrantTypeOK, RequestSteps
<1>2. CASE keeper' = [keeper EXCEPT ![k].pc = "reread", ![k].token = tokens[r],
                                    ![k].namespace = accounts[r].namespace]
  <2>1. /\ tokens[r] \in Tokens \cup {NoToken}
        /\ accounts[r].namespace \in Authorizations \cup {Nobody}
    BY DEF GrantTypeOK, AccountRows
  <2> DEFINE reread == [keeper[k] EXCEPT !.pc = "reread", !.token = tokens[r],
                                         !.namespace = accounts[r].namespace]
  <2>2. keeper' = [keeper EXCEPT ![k] = reread]
    BY <1>2 DEF GrantTypeOK
  <2>3. reread \in KeeperStates
    BY <2>1 DEF GrantTypeOK, KeeperStates
  <2> HIDE DEF reread
  <2> QED BY <2>2, <2>3 DEF Reread, GrantTypeOK
<1> QED BY <1>1, <1>2 DEF Reread

LEMMA RefreshType ==
  ASSUME GrantTypeOK, NEW k \in Keepers, NEW by \in Authorizations, keeper[k].token.by = by,
         Refresh(k)
  PROVE  GrantTypeOK'
<1>1. /\ issued[by] + 1 \in 0..MaxRefreshes
      /\ issued' = [issued EXCEPT ![by] = issued[by] + 1]
  BY GrantAssumption DEF Refresh, GrantTypeOK
<1>2. [by |-> by, nth |-> issued[by] + 1] \in Tokens
  BY <1>1 DEF Tokens
<1>3. issued' \in [Authorizations -> 0..MaxRefreshes]
  BY <1>1 DEF GrantTypeOK
<1> DEFINE token == [by |-> by, nth |-> issued[by] + 1]
           exchanged == [keeper[k] EXCEPT !.pc = "exchanged", !.fresh = token]
<1>4. keeper' = [keeper EXCEPT ![k] = exchanged]
  BY DEF Refresh, GrantTypeOK
<1> HIDE DEF token
<1>5. exchanged \in KeeperStates
  BY <1>2 DEF GrantTypeOK, KeeperStates, token
<1> HIDE DEF exchanged
<1> QED BY <1>3, <1>4, <1>5, ZenonT(60) DEF Refresh, GrantTypeOK

LEMMA SaveRefreshedType ==
  ASSUME GrantTypeOK, NEW k \in Keepers, SaveRefreshed(k)
  PROVE  GrantTypeOK'
<1>1. tokens' \in [Authorizations -> Tokens \cup {NoToken}]
  BY DEF SaveRefreshed, GrantTypeOK, KeeperStates
<1>2. keeper' \in [Keepers -> KeeperStates]
  BY KeeperGoesIsTyped DEF RequestSteps, SaveRefreshed
<1>3. UNCHANGED << home, accounts, issued, grant, grantFaults >>
  BY DEF SaveRefreshed
<1> QED BY <1>1, <1>2, <1>3 DEF GrantTypeOK

LEMMA ReadForRemovalType ==
  ASSUME GrantTypeOK, NEW k \in Keepers, NEW r \in Authorizations, keeper[k].row = r,
         ReadForRemoval(k)
  PROVE  GrantTypeOK'
<1>1. CASE KeeperGoes(k, "releasing")
  BY <1>1, KeeperGoesIsTyped DEF ReadForRemoval, GrantTypeOK, RequestSteps
<1>2. CASE keeper' = [keeper EXCEPT ![k].pc = "removing",
                                    ![k].namespace = accounts[r].namespace]
  <2>1. accounts[r].namespace \in Authorizations \cup {Nobody}
    BY DEF GrantTypeOK, AccountRows
  <2> DEFINE read == [keeper[k] EXCEPT !.pc = "removing", !.namespace = accounts[r].namespace]
  <2>2. keeper' = [keeper EXCEPT ![k] = read]
    BY <1>2 DEF GrantTypeOK
  <2>3. read \in KeeperStates
    BY <2>1 DEF GrantTypeOK, KeeperStates
  <2> HIDE DEF read
  <2> QED BY <2>2, <2>3 DEF ReadForRemoval, GrantTypeOK
<1> QED BY <1>1, <1>2 DEF ReadForRemoval

LEMMA RemoveGrantType ==
  ASSUME GrantTypeOK, NEW k \in Keepers, RemoveGrant(k)
  PROVE  GrantTypeOK'
<1>1. accounts' \in [Authorizations -> AccountRows]
  BY DEF RemoveGrant, GrantTypeOK, AccountRows
<1>2. tokens' \in [Authorizations -> Tokens \cup {NoToken}]
  BY DEF RemoveGrant, GrantTypeOK
<1>3. keeper' \in [Keepers -> KeeperStates]
  BY KeeperGoesIsTyped DEF RequestSteps, RemoveGrant
<1>4. UNCHANGED << home, issued, grant, grantFaults >>
  BY DEF RemoveGrant
<1> QED BY <1>1, <1>2, <1>3, <1>4 DEF GrantTypeOK

LEMMA KeeperReleasesType ==
  ASSUME GrantTypeOK, NEW k \in Keepers, KeeperReleases(k)
  PROVE  GrantTypeOK'
<1>1. accounts' \in [Authorizations -> AccountRows]
  BY ReturnIsTyped DEF KeeperReleases
<1>2. keeper' \in [Keepers -> KeeperStates]
  BY KeeperGoesIsTyped DEF RequestSteps, KeeperReleases
<1>3. UNCHANGED << home, tokens, issued, grant, grantFaults >>
  BY DEF KeeperReleases
<1> QED BY <1>1, <1>2, <1>3 DEF GrantTypeOK

LEMMA KeeperThrowsType ==
  ASSUME GrantTypeOK, NEW k \in Keepers, KeeperThrows(k)
  PROVE  GrantTypeOK'
<1>1. keeper' \in [Keepers -> KeeperStates]
  BY KeeperGoesIsTyped DEF RequestSteps, KeeperThrows
<1>2. grantFaults' \in 0..MaxGrantFaults
  BY FaultIsTyped DEF KeeperThrows
<1>3. UNCHANGED << home, accounts, tokens, issued, grant >>
  BY DEF KeeperThrows
<1> QED BY <1>1, <1>2, <1>3 DEF GrantTypeOK

LEMMA KeeperDiesType ==
  ASSUME GrantTypeOK, NEW k \in Keepers, KeeperDies(k)
  PROVE  GrantTypeOK'
<1>1. keeper' \in [Keepers -> KeeperStates]
  BY KeeperGoesIsTyped DEF RequestSteps, KeeperDies
<1>2. grantFaults' \in 0..MaxGrantFaults
  BY FaultIsTyped DEF KeeperDies
<1>3. UNCHANGED << home, accounts, tokens, issued, grant >>
  BY DEF KeeperDies
<1> QED BY <1>1, <1>2, <1>3 DEF GrantTypeOK

LEMMA LeaseEndsType ==
  ASSUME GrantTypeOK, NEW r \in Authorizations, LeaseEnds(r)
  PROVE  GrantTypeOK'
<1>1. accounts' \in [Authorizations -> AccountRows]
  BY ZenonT(60) DEF LeaseEnds, GrantTypeOK, AccountRows
<1>2. grantFaults' \in 0..MaxGrantFaults
  BY FaultIsTyped DEF LeaseEnds
<1> QED BY <1>1, <1>2 DEF LeaseEnds, GrantTypeOK

-----------------------------------------------------------------------------
(* Each kind of step preserves the invariant.                              *)

LEMMA Names ==
  ASSUME GrantTypeOK, GrantTypeOK'
  PROVE  /\ grant \in [Authorizations -> CallbackStates]
         /\ grant' \in [Authorizations -> CallbackStates]
         /\ keeper \in [Keepers -> KeeperStates] /\ keeper' \in [Keepers -> KeeperStates]
         /\ Authorizations \cap Keepers = {} /\ Nobody \notin Authorizations \cup Keepers
         /\ grantFaults \in Nat /\ grantFaults' \in Nat
  BY GrantAssumption DEF GrantTypeOK

\* A new row is pending.
LEMMA AuthorizeStep ==
  ASSUME GrantInv, GrantTypeOK', NEW a \in Authorizations,
         AuthorizeCompany(a)
  PROVE  GrantInv'
<1> USE Names DEF GrantInv, RowBecomes, TokenBecomes, CallbackBecomes, RequestBecomes
<1>1. /\ grant[a].pc = "idle"
      /\ RowBecomes(a, "pending", FALSE, a, Nobody, FALSE)
      /\ CallbackBecomes(a, "away", grant[a].target, grant[a].own, grant[a].other)
  BY GrantAssumption DEF GrantTypeOK, AccountRows, CallbackStates, KeeperStates,
     AuthorizeCompany, GrantGoes, NoAccount
<1>2. UNCHANGED << home, tokens, issued, keeper, grantFaults >>
  BY DEF AuthorizeCompany, GrantGoes, NoAccount
<1>3. TokensOfTheirGrant' BY <1>1, <1>2 DEF TokensOfTheirGrant, Refreshes
<1>4. RemovedKeepsNothing' BY <1>1, <1>2 DEF RemovedKeepsNothing
<1>5. OneRowPerCompany' BY <1>1, <1>2 DEF OneRowPerCompany, TargetsKnown, Trying,
         OfCompany
<1>6. Attempts' BY <1>1, <1>2 DEF Attempts, TargetsKnown, Trying, LeasesKnown,
         Unleased
<1>7. TargetsKnown' BY <1>1, <1>2 DEF TargetsKnown, Attempts, Trying, Unleased, OfCompany
<1>8. LeasesKnown' BY <1>1, <1>2 DEF LeasesKnown, Attempts, Unleased, TargetsKnown
<1>9. Refreshes' BY <1>1, <1>2 DEF Refreshes, Unissued, Attempts
<1>10. Unissued' BY <1>1, <1>2 DEF Unissued, Unleased, Trying, Refreshes, NoToken
<1>11. ConnectedIsOfCompany' BY <1>1, <1>2 DEF ConnectedIsOfCompany, TargetsKnown,
         Trying
<1>12. (grantFaults = 0 => Undisturbed)'
  BY <1>1, <1>2 DEF Undisturbed, TargetsKnown, LeasesKnown, Refreshes, Attempts,
     Trying, Unleased, ConnectedIsOfCompany, OneRowPerCompany
<1>13. NewestTokenIsKept'
  BY <1>1, <1>2 DEF NewestTokenIsKept, Undisturbed, Unissued, TargetsKnown, Trying,
     Unleased, ConnectedIsOfCompany, OneRowPerCompany, Refreshes
<1> QED BY <1>3, <1>4, <1>5, <1>6, <1>7, <1>8, <1>9, <1>10, <1>11, <1>12, <1>13

\* A declined attempt deletes its row.
LEMMA DropDeclinedStep ==
  ASSUME GrantInv, GrantTypeOK', NEW a \in Authorizations,
         DropDeclined(a)
  PROVE  GrantInv'
<1> USE Names DEF GrantInv, RowBecomes, TokenBecomes, CallbackBecomes, RequestBecomes
<1>1. /\ grant[a].pc = "declined"
      /\ RowBecomes(a, "absent", FALSE, Nobody, Nobody, FALSE)
      /\ TokenBecomes(a, NoToken)
      /\ CallbackBecomes(a, "ended", grant[a].target, grant[a].own, grant[a].other)
  BY GrantAssumption DEF GrantTypeOK, AccountRows, CallbackStates, KeeperStates,
     DropDeclined, DropRow, GrantGoes, NoAccount
<1>2. UNCHANGED << home, issued, keeper, grantFaults >>
  BY DEF DropDeclined, DropRow, GrantGoes, NoAccount
<1>3. TokensOfTheirGrant' BY <1>1, <1>2 DEF TokensOfTheirGrant, Refreshes
<1>4. RemovedKeepsNothing' BY <1>1, <1>2 DEF RemovedKeepsNothing
<1>5. OneRowPerCompany' BY <1>1, <1>2 DEF OneRowPerCompany, TargetsKnown, Trying,
         OfCompany
<1>6. Attempts' BY <1>1, <1>2 DEF Attempts, TargetsKnown, Trying, LeasesKnown,
         Unleased
<1>7. TargetsKnown' BY <1>1, <1>2 DEF TargetsKnown, Attempts, Trying, Unleased, OfCompany
<1>8. LeasesKnown' BY <1>1, <1>2 DEF LeasesKnown, Attempts, Unleased, TargetsKnown
<1>9. Refreshes' BY <1>1, <1>2 DEF Refreshes, Unissued, Attempts
<1>10. Unissued' BY <1>1, <1>2 DEF Unissued, Unleased, Trying, Refreshes, NoToken
<1>11. ConnectedIsOfCompany' BY <1>1, <1>2 DEF ConnectedIsOfCompany, TargetsKnown,
         Trying
<1>12. (grantFaults = 0 => Undisturbed)'
  BY <1>1, <1>2 DEF Undisturbed, TargetsKnown, LeasesKnown, Refreshes, Attempts,
     Trying, Unleased, ConnectedIsOfCompany, OneRowPerCompany
<1>13. NewestTokenIsKept'
  BY <1>1, <1>2 DEF NewestTokenIsKept, Undisturbed, Unissued, TargetsKnown, Trying,
     Unleased, ConnectedIsOfCompany, OneRowPerCompany, Refreshes
<1> QED BY <1>3, <1>4, <1>5, <1>6, <1>7, <1>8, <1>9, <1>10, <1>11, <1>12, <1>13

\* The company is found in a row, or in none.
LEMMA FindStep ==
  ASSUME GrantInv, GrantTypeOK', NEW a \in Authorizations, NEW b \in Authorizations,
         Exchange(a), grant'[a].pc = "found", grant'[a].target = b
  PROVE  GrantInv'
<1> USE Names DEF GrantInv, RowBecomes, TokenBecomes, CallbackBecomes, RequestBecomes
<1>1. /\ grant[a].pc = "away"
      /\ OfCompany(b) \/ (b = a /\ \A d \in Authorizations : ~OfCompany(d))
      /\ CallbackBecomes(a, "found", b, grant[a].own, grant[a].other)
  <2> ~GrantGoes(a, "failed") BY DEF GrantGoes, CallbackStates
  <2>1. /\ grant[a].pc = "away"
        /\ \/ /\ \A d \in Authorizations : ~OfCompany(d)
              /\ grant' = [grant EXCEPT ![a].pc = "found", ![a].target = a]
           \/ \E d \in Authorizations :
                /\ OfCompany(d)
                /\ grant' = [grant EXCEPT ![a].pc = "found", ![a].target = d,
                                ![a].seen = accounts[d].status, ![a].was = accounts[d].namespace]
    BY DEF Exchange
  <2>2. CASE \A d \in Authorizations : ~OfCompany(d)
    <3>1. grant' = [grant EXCEPT ![a].pc = "found", ![a].target = a] BY <2>1, <2>2
    <3>2. grant'[a].target = a BY <3>1 DEF CallbackStates
    <3> QED BY <2>1, <2>2, <3>1, <3>2 DEF CallbackStates
  <2>3. CASE \E d \in Authorizations : OfCompany(d)
    <3>1. PICK d \in Authorizations :
             /\ OfCompany(d)
             /\ grant' = [grant EXCEPT ![a].pc = "found", ![a].target = d,
                             ![a].seen = accounts[d].status, ![a].was = accounts[d].namespace]
      BY <2>1, <2>3
    <3>2. d = b BY <3>1 DEF CallbackStates
    <3> QED BY <2>1, <3>1, <3>2, ZenonT(60) DEF CallbackStates
  <2> QED BY <2>2, <2>3
<1>2. UNCHANGED << home, accounts, tokens, issued, keeper, grantFaults >>
  BY DEF Exchange, GrantGoes
<1>3. TokensOfTheirGrant' BY <1>1, <1>2 DEF TokensOfTheirGrant, Refreshes
<1>4. RemovedKeepsNothing' BY <1>1, <1>2 DEF RemovedKeepsNothing
<1>5. OneRowPerCompany' BY <1>1, <1>2 DEF OneRowPerCompany, TargetsKnown, Trying,
         OfCompany
<1>6. Attempts' BY <1>1, <1>2 DEF Attempts, TargetsKnown, Trying, LeasesKnown,
         Unleased
<1>7. TargetsKnown' BY <1>1, <1>2 DEF TargetsKnown, Attempts, Trying, Unleased, OfCompany
<1>8. LeasesKnown' BY <1>1, <1>2 DEF LeasesKnown, Attempts, Unleased, TargetsKnown
<1>9. Refreshes' BY <1>1, <1>2 DEF Refreshes, Unissued, Attempts
<1>10. Unissued' BY <1>1, <1>2 DEF Unissued, Unleased, Trying, Refreshes, NoToken
<1>11. ConnectedIsOfCompany' BY <1>1, <1>2 DEF ConnectedIsOfCompany, TargetsKnown,
         Trying
<1>12. (grantFaults = 0 => Undisturbed)'
  BY <1>1, <1>2 DEF Undisturbed, TargetsKnown, LeasesKnown, Refreshes, Attempts,
     Trying, Unleased, ConnectedIsOfCompany, OneRowPerCompany
<1>13. NewestTokenIsKept'
  BY <1>1, <1>2 DEF NewestTokenIsKept, Undisturbed, Unissued, TargetsKnown, Trying,
     Unleased, ConnectedIsOfCompany, OneRowPerCompany, Refreshes
<1> QED BY <1>3, <1>4, <1>5, <1>6, <1>7, <1>8, <1>9, <1>10, <1>11, <1>12, <1>13

\* The lease of the own row is taken.
LEMMA LeaseOwnStep ==
  ASSUME GrantInv, GrantTypeOK', NEW a \in Authorizations,
         LeaseOwnRow(a), grant'[a].pc = "leased"
  PROVE  GrantInv'
<1> USE Names DEF GrantInv, RowBecomes, TokenBecomes, CallbackBecomes, RequestBecomes
<1>1. /\ grant[a].pc = "found"
      /\ accounts[a].owner = Nobody \/ ~accounts[a].live
      /\ RowBecomes(a, accounts[a].status, accounts[a].company, accounts[a].namespace, a, TRUE)
      /\ CallbackBecomes(a, "leased", grant[a].target, TRUE, grant[a].other)
  BY GrantAssumption DEF GrantTypeOK, AccountRows, CallbackStates, KeeperStates,
     LeaseOwnRow, TakeRowLease, Vacant, GrantGoes
<1>2. UNCHANGED << home, tokens, issued, keeper, grantFaults >>
  BY DEF LeaseOwnRow, TakeRowLease, Vacant, GrantGoes
<1>3. TokensOfTheirGrant' BY <1>1, <1>2 DEF TokensOfTheirGrant, Refreshes
<1>4. RemovedKeepsNothing' BY <1>1, <1>2 DEF RemovedKeepsNothing
<1>5. OneRowPerCompany' BY <1>1, <1>2 DEF OneRowPerCompany, TargetsKnown, Trying,
         OfCompany
<1>6. Attempts' BY <1>1, <1>2 DEF Attempts, TargetsKnown, Trying, LeasesKnown,
         Unleased
<1>7. TargetsKnown' BY <1>1, <1>2 DEF TargetsKnown, Attempts, Trying, Unleased, OfCompany
<1>8. LeasesKnown' BY <1>1, <1>2 DEF LeasesKnown, Attempts, Unleased, TargetsKnown
<1>9. Refreshes' BY <1>1, <1>2 DEF Refreshes, Unissued, Attempts
<1>10. Unissued' BY <1>1, <1>2 DEF Unissued, Unleased, Trying, Refreshes, NoToken
<1>11. ConnectedIsOfCompany' BY <1>1, <1>2 DEF ConnectedIsOfCompany, TargetsKnown,
         Trying
<1>12. (grantFaults = 0 => Undisturbed)'
  BY <1>1, <1>2 DEF Undisturbed, TargetsKnown, LeasesKnown, Refreshes, Attempts,
     Trying, Unleased, ConnectedIsOfCompany, OneRowPerCompany
<1>13. NewestTokenIsKept'
  BY <1>1, <1>2 DEF NewestTokenIsKept, Undisturbed, Unissued, TargetsKnown, Trying,
     Unleased, ConnectedIsOfCompany, OneRowPerCompany, Refreshes
<1> QED BY <1>3, <1>4, <1>5, <1>6, <1>7, <1>8, <1>9, <1>10, <1>11, <1>12, <1>13

\* The lease of the older row is taken.
LEMMA LeaseOtherStep ==
  ASSUME GrantInv, GrantTypeOK', NEW a \in Authorizations, NEW b \in Authorizations,
         LeaseTarget(a), grant[a].target = b, b # a, grant'[a].pc = "both"
  PROVE  GrantInv'
<1> USE Names DEF GrantInv, RowBecomes, TokenBecomes, CallbackBecomes, RequestBecomes
<1>1. /\ grant[a].pc = "checked"
      /\ accounts[b].owner = Nobody \/ ~accounts[b].live
      /\ RowBecomes(b, accounts[b].status, accounts[b].company, accounts[b].namespace, a, TRUE)
      /\ CallbackBecomes(a, "both", grant[a].target, grant[a].own, TRUE)
  BY GrantAssumption DEF GrantTypeOK, AccountRows, CallbackStates, KeeperStates,
     LeaseTarget, TakeRowLease, Vacant, GrantGoes
<1>2. UNCHANGED << home, tokens, issued, keeper, grantFaults >>
  BY DEF LeaseTarget, TakeRowLease, Vacant, GrantGoes
<1>3. TokensOfTheirGrant' BY <1>1, <1>2 DEF TokensOfTheirGrant, Refreshes
<1>4. RemovedKeepsNothing' BY <1>1, <1>2 DEF RemovedKeepsNothing
<1>5. OneRowPerCompany' BY <1>1, <1>2 DEF OneRowPerCompany, TargetsKnown, Trying,
         OfCompany
<1>6. Attempts' BY <1>1, <1>2 DEF Attempts, TargetsKnown, Trying, LeasesKnown,
         Unleased
<1>7. TargetsKnown' BY <1>1, <1>2 DEF TargetsKnown, Attempts, Trying, Unleased, OfCompany
<1>8. LeasesKnown' BY <1>1, <1>2 DEF LeasesKnown, Attempts, Unleased, TargetsKnown
<1>9. Refreshes' BY <1>1, <1>2 DEF Refreshes, Unissued, Attempts
<1>10. Unissued' BY <1>1, <1>2 DEF Unissued, Unleased, Trying, Refreshes, NoToken
<1>11. ConnectedIsOfCompany' BY <1>1, <1>2 DEF ConnectedIsOfCompany, TargetsKnown,
         Trying
<1>12. (grantFaults = 0 => Undisturbed)'
  BY <1>1, <1>2 DEF Undisturbed, TargetsKnown, LeasesKnown, Refreshes, Attempts,
     Trying, Unleased, ConnectedIsOfCompany, OneRowPerCompany
<1>13. NewestTokenIsKept'
  BY <1>1, <1>2 DEF NewestTokenIsKept, Undisturbed, Unissued, TargetsKnown, Trying,
     Unleased, ConnectedIsOfCompany, OneRowPerCompany, Refreshes
<1> QED BY <1>3, <1>4, <1>5, <1>6, <1>7, <1>8, <1>9, <1>10, <1>11, <1>12, <1>13

\* The metadata are written to a row that is as it was found.
LEMMA WriteStep ==
  ASSUME GrantInv, GrantTypeOK', NEW a \in Authorizations, NEW b \in Authorizations,
         WriteMetadata(a), grant[a].target = b, Unchanged(a)
  PROVE  GrantInv'
<1> USE Names DEF GrantInv, RowBecomes, TokenBecomes, CallbackBecomes, RequestBecomes
<1>1. /\ grant[a].pc = "both"
      /\ accounts[b].status \notin {"absent", "revoked"} /\ accounts[b].owner = a
      /\ a = b => \A d \in Authorizations \ {a} : ~accounts[d].company
      /\ RowBecomes(b, "pending", TRUE, a, accounts[b].owner, accounts[b].live)
      /\ CallbackBecomes(a, "saving", grant[a].target, grant[a].own, grant[a].other)
  <2>1. /\ grant[a].pc = "both"
        /\ accounts' = [accounts EXCEPT ![b].status = "pending", ![b].company = TRUE,
                                       ![b].namespace = a]
        /\ grant' = [grant EXCEPT ![a].pc = "saving"]
    BY DEF WriteMetadata, GrantGoes
  <2>2. accounts[b].status = "pending" \/ accounts[b].status = grant[a].seen
    BY DEF Unchanged
  <2>3. accounts[b].status \notin {"absent", "revoked"}
    BY <2>2 DEF CallbackStates
  <2>4. /\ accounts[b].owner = a
        /\ a = b => \A d \in Authorizations \ {a} : ~accounts[d].company
    BY DEF Unchanged, HoldsRow
  <2> QED BY <2>1, <2>3, <2>4 DEF GrantTypeOK, AccountRows, CallbackStates
<1>2. UNCHANGED << home, tokens, issued, keeper, grantFaults >>
  BY DEF WriteMetadata, Unchanged, HoldsRow, GrantGoes
<1>3. TokensOfTheirGrant' BY <1>1, <1>2 DEF TokensOfTheirGrant, Refreshes
<1>4. RemovedKeepsNothing' BY <1>1, <1>2 DEF RemovedKeepsNothing
<1>5. OneRowPerCompany' BY <1>1, <1>2 DEF OneRowPerCompany, TargetsKnown, Trying,
         OfCompany
<1>6. Attempts' BY <1>1, <1>2 DEF Attempts, TargetsKnown, Trying, LeasesKnown,
         Unleased
<1>7. TargetsKnown' BY <1>1, <1>2 DEF TargetsKnown, Attempts, Trying, Unleased, OfCompany
<1>8. LeasesKnown' BY <1>1, <1>2 DEF LeasesKnown, Attempts, Unleased, TargetsKnown
<1>9. Refreshes' BY <1>1, <1>2 DEF Refreshes, Unissued, Attempts
<1>10. Unissued' BY <1>1, <1>2 DEF Unissued, Unleased, Trying, Refreshes, NoToken
<1>11. ConnectedIsOfCompany' BY <1>1, <1>2 DEF ConnectedIsOfCompany, TargetsKnown,
         Trying
<1>12. (grantFaults = 0 => Undisturbed)'
  BY <1>1, <1>2 DEF Undisturbed, TargetsKnown, LeasesKnown, Refreshes, Attempts,
     Trying, Unleased, ConnectedIsOfCompany, OneRowPerCompany
<1>13. NewestTokenIsKept'
  BY <1>1, <1>2 DEF NewestTokenIsKept, Undisturbed, Unissued, TargetsKnown, Trying,
     Unleased, ConnectedIsOfCompany, OneRowPerCompany, Refreshes
<1> QED BY <1>3, <1>4, <1>5, <1>6, <1>7, <1>8, <1>9, <1>10, <1>11, <1>12, <1>13

\* The tokens are saved; the answer may be lost.
LEMMA SaveStep ==
  ASSUME GrantInv, GrantTypeOK', NEW a \in Authorizations, NEW b \in Authorizations,
         (SaveTokens(a) /\ MaySave(a, b)) \/ SaveAnswerLost(a), grant[a].target = b
  PROVE  GrantInv'
<1> USE Names DEF GrantInv, RowBecomes, TokenBecomes, CallbackBecomes, RequestBecomes
<1>1. /\ grant[a].pc = "saving"
      /\ accounts[b].status \in {"pending", "connected"}
      /\ accounts[b].owner = a /\ accounts[b].namespace = a
      /\ RowBecomes(b, "connected", accounts[b].company, accounts[b].namespace, accounts[b].owner, accounts[b].live)
      /\ TokenBecomes(b, [by |-> a, nth |-> 0])
      /\ CallbackBecomes(a, grant'[a].pc, grant[a].target, grant[a].own, grant[a].other)
  BY GrantAssumption DEF GrantTypeOK, AccountRows, CallbackStates, KeeperStates,
     SaveTokens, SaveAnswerLost, MaySave, HoldsRow, GrantGoes
<1>2. /\ UNCHANGED << home, issued, keeper >>
      /\ \/ grant'[a].pc = "saved" /\ grantFaults' = grantFaults
         \/ grant'[a].pc = "failed" /\ grantFaults' = grantFaults + 1
  BY GrantAssumption DEF SaveTokens, SaveAnswerLost, GrantGoes, Fault, GrantTypeOK,
     CallbackStates
<1>3. TokensOfTheirGrant' BY <1>1, <1>2 DEF TokensOfTheirGrant, Refreshes
<1>4. RemovedKeepsNothing' BY <1>1, <1>2 DEF RemovedKeepsNothing
<1>5. OneRowPerCompany' BY <1>1, <1>2 DEF OneRowPerCompany, TargetsKnown, Trying,
         OfCompany
<1>6. Attempts' BY <1>1, <1>2 DEF Attempts, TargetsKnown, Trying, LeasesKnown,
         Unleased
<1>7. TargetsKnown' BY <1>1, <1>2 DEF TargetsKnown, Attempts, Trying, Unleased, OfCompany
<1>8. LeasesKnown' BY <1>1, <1>2 DEF LeasesKnown, Attempts, Unleased, TargetsKnown
<1>9. Refreshes' BY <1>1, <1>2 DEF Refreshes, Unissued, Attempts
<1>10. Unissued' BY <1>1, <1>2 DEF Unissued, Unleased, Trying, Refreshes, NoToken
<1>11. ConnectedIsOfCompany' BY <1>1, <1>2 DEF ConnectedIsOfCompany, TargetsKnown,
         Trying
<1>12. (grantFaults = 0 => Undisturbed)'
  BY <1>1, <1>2 DEF Undisturbed, TargetsKnown, LeasesKnown, Refreshes, Attempts,
     Trying, Unleased, ConnectedIsOfCompany, OneRowPerCompany
<1>13. NewestTokenIsKept'
  BY <1>1, <1>2 DEF NewestTokenIsKept, Undisturbed, Unissued, TargetsKnown, Trying,
     Unleased, ConnectedIsOfCompany, OneRowPerCompany, Refreshes
<1> QED BY <1>3, <1>4, <1>5, <1>6, <1>7, <1>8, <1>9, <1>10, <1>11, <1>12, <1>13

\* The row of an attempt for an older row is deleted.
LEMMA DropOwnStep ==
  ASSUME GrantInv, GrantTypeOK', NEW a \in Authorizations,
         DropAttempt(a), grant[a].target # a
  PROVE  GrantInv'
<1> USE Names DEF GrantInv, RowBecomes, TokenBecomes, CallbackBecomes, RequestBecomes
<1>1. /\ grant[a].pc = "saved"
      /\ RowBecomes(a, "absent", FALSE, Nobody, Nobody, FALSE)
      /\ TokenBecomes(a, NoToken)
      /\ CallbackBecomes(a, "marked", grant[a].target, grant[a].own, grant[a].other)
  BY GrantAssumption DEF GrantTypeOK, AccountRows, CallbackStates, KeeperStates,
     DropAttempt, DropRow, GrantGoes, NoAccount
<1>2. UNCHANGED << home, issued, keeper, grantFaults >>
  BY DEF DropAttempt, DropRow, GrantGoes, NoAccount
<1>3. TokensOfTheirGrant' BY <1>1, <1>2 DEF TokensOfTheirGrant, Refreshes
<1>4. RemovedKeepsNothing' BY <1>1, <1>2 DEF RemovedKeepsNothing
<1>5. OneRowPerCompany' BY <1>1, <1>2 DEF OneRowPerCompany, TargetsKnown, Trying,
         OfCompany
<1>6. Attempts' BY <1>1, <1>2 DEF Attempts, TargetsKnown, Trying, LeasesKnown,
         Unleased
<1>7. TargetsKnown' BY <1>1, <1>2 DEF TargetsKnown, Attempts, Trying, Unleased, OfCompany
<1>8. LeasesKnown' BY <1>1, <1>2 DEF LeasesKnown, Attempts, Unleased, TargetsKnown
<1>9. Refreshes' BY <1>1, <1>2 DEF Refreshes, Unissued, Attempts
<1>10. Unissued' BY <1>1, <1>2 DEF Unissued, Unleased, Trying, Refreshes, NoToken
<1>11. ConnectedIsOfCompany' BY <1>1, <1>2 DEF ConnectedIsOfCompany, TargetsKnown,
         Trying
<1>12. (grantFaults = 0 => Undisturbed)'
  BY <1>1, <1>2 DEF Undisturbed, TargetsKnown, LeasesKnown, Refreshes, Attempts,
     Trying, Unleased, ConnectedIsOfCompany, OneRowPerCompany
<1>13. NewestTokenIsKept'
  BY <1>1, <1>2 DEF NewestTokenIsKept, Undisturbed, Unissued, TargetsKnown, Trying,
     Unleased, ConnectedIsOfCompany, OneRowPerCompany, Refreshes
<1> QED BY <1>3, <1>4, <1>5, <1>6, <1>7, <1>8, <1>9, <1>10, <1>11, <1>12, <1>13

\* A row of the attempt is marked with an error.
LEMMA MarkStep ==
  ASSUME GrantInv, GrantTypeOK', NEW a \in Authorizations, NEW b \in Authorizations,
         \/ MarkTarget(a) /\ b = grant[a].target
         \/ MarkAttempt(a) /\ b = a,
         accounts' # accounts
  PROVE  GrantInv'
<1> USE Names DEF GrantInv, RowBecomes, TokenBecomes, CallbackBecomes, RequestBecomes
<1>1. /\ grant[a].pc \in {"failed", "half"} /\ grant'[a].pc \in {"half", "marked"}
      /\ accounts[b].status \in {"pending", "connected"}
      /\ accounts[b].owner \in {a, Nobody} /\ accounts[b].namespace = a
      /\ RowBecomes(b, "error", accounts[b].company, accounts[b].namespace, accounts[b].owner, accounts[b].live)
      /\ CallbackBecomes(a, grant'[a].pc, grant[a].target, grant[a].own, grant[a].other)
  BY GrantAssumption DEF GrantTypeOK, AccountRows, CallbackStates, KeeperStates,
     MarkTarget, MarkAttempt, IsMyAttempt, GrantGoes
<1>2. UNCHANGED << home, tokens, issued, keeper, grantFaults >>
  BY DEF MarkTarget, MarkAttempt, IsMyAttempt, GrantGoes
<1>3. TokensOfTheirGrant' BY <1>1, <1>2 DEF TokensOfTheirGrant, Refreshes
<1>4. RemovedKeepsNothing' BY <1>1, <1>2 DEF RemovedKeepsNothing
<1>5. OneRowPerCompany' BY <1>1, <1>2 DEF OneRowPerCompany, TargetsKnown, Trying,
         OfCompany
<1>6. Attempts' BY <1>1, <1>2 DEF Attempts, TargetsKnown, Trying, LeasesKnown,
         Unleased
<1>7. TargetsKnown' BY <1>1, <1>2 DEF TargetsKnown, Attempts, Trying, Unleased, OfCompany
<1>8. LeasesKnown' BY <1>1, <1>2 DEF LeasesKnown, Attempts, Unleased, TargetsKnown
<1>9. Refreshes' BY <1>1, <1>2 DEF Refreshes, Unissued, Attempts
<1>10. Unissued' BY <1>1, <1>2 DEF Unissued, Unleased, Trying, Refreshes, NoToken
<1>11. ConnectedIsOfCompany' BY <1>1, <1>2 DEF ConnectedIsOfCompany, TargetsKnown,
         Trying
<1>12. (grantFaults = 0 => Undisturbed)'
  BY <1>1, <1>2 DEF Undisturbed, TargetsKnown, LeasesKnown, Refreshes, Attempts,
     Trying, Unleased, ConnectedIsOfCompany, OneRowPerCompany
<1>13. NewestTokenIsKept'
  BY <1>1, <1>2 DEF NewestTokenIsKept, Undisturbed, Unissued, TargetsKnown, Trying,
     Unleased, ConnectedIsOfCompany, OneRowPerCompany, Refreshes
<1> QED BY <1>3, <1>4, <1>5, <1>6, <1>7, <1>8, <1>9, <1>10, <1>11, <1>12, <1>13

\* A lease is given back.
LEMMA ReturnStep ==
  ASSUME GrantInv, GrantTypeOK', NEW a \in Authorizations, NEW b \in Authorizations,
         \/ ReleaseTarget(a) /\ grant[a].other /\ b = grant[a].target
         \/ ReleaseAttempt(a) /\ grant[a].own /\ b = a,
         accounts[b].owner = a
  PROVE  GrantInv'
<1> USE Names DEF GrantInv, RowBecomes, TokenBecomes, CallbackBecomes, RequestBecomes
<1>1. /\ \/ grant[a].pc = "marked" /\ grant'[a].pc = "released" /\ b = grant[a].target
         \/ grant[a].pc = "released" /\ grant'[a].pc = "ended" /\ b = a
      /\ RowBecomes(b, accounts[b].status, accounts[b].company, accounts[b].namespace, Nobody, FALSE)
      /\ CallbackBecomes(a, grant'[a].pc, grant[a].target, grant[a].own, grant[a].other)
  BY GrantAssumption DEF GrantTypeOK, AccountRows, CallbackStates, KeeperStates,
     ReleaseTarget, ReleaseAttempt, GiveBack, GrantGoes
<1>2. UNCHANGED << home, tokens, issued, keeper, grantFaults >>
  BY DEF ReleaseTarget, ReleaseAttempt, GiveBack, GrantGoes
<1>3. TokensOfTheirGrant' BY <1>1, <1>2 DEF TokensOfTheirGrant, Refreshes
<1>4. RemovedKeepsNothing' BY <1>1, <1>2 DEF RemovedKeepsNothing
<1>5. OneRowPerCompany' BY <1>1, <1>2 DEF OneRowPerCompany, TargetsKnown, Trying,
         OfCompany
<1>6. Attempts' BY <1>1, <1>2 DEF Attempts, TargetsKnown, Trying, LeasesKnown,
         Unleased
<1>7. TargetsKnown' BY <1>1, <1>2 DEF TargetsKnown, Attempts, Trying, Unleased, OfCompany
<1>8. LeasesKnown' BY <1>1, <1>2 DEF LeasesKnown, Attempts, Unleased, TargetsKnown
<1>9. Refreshes' BY <1>1, <1>2 DEF Refreshes, Unissued, Attempts
<1>10. Unissued' BY <1>1, <1>2 DEF Unissued, Unleased, Trying, Refreshes, NoToken
<1>11. ConnectedIsOfCompany' BY <1>1, <1>2 DEF ConnectedIsOfCompany, TargetsKnown,
         Trying
<1>12. (grantFaults = 0 => Undisturbed)'
  BY <1>1, <1>2 DEF Undisturbed, TargetsKnown, LeasesKnown, Refreshes, Attempts,
     Trying, Unleased, ConnectedIsOfCompany, OneRowPerCompany
<1>13. NewestTokenIsKept'
  BY <1>1, <1>2 DEF NewestTokenIsKept, Undisturbed, Unissued, TargetsKnown, Trying,
     Unleased, ConnectedIsOfCompany, OneRowPerCompany, Refreshes
<1> QED BY <1>3, <1>4, <1>5, <1>6, <1>7, <1>8, <1>9, <1>10, <1>11, <1>12, <1>13

\* A request begins to refresh.
LEMMA StartRefreshStep ==
  ASSUME GrantInv, GrantTypeOK', NEW k \in Keepers, NEW r \in Authorizations,
         StartRefresh(k, r)
  PROVE  GrantInv'
<1> USE Names DEF GrantInv, RowBecomes, TokenBecomes, CallbackBecomes, RequestBecomes
<1>1. /\ keeper[k].pc = "idle" /\ accounts[r].status = "connected"
      /\ RequestBecomes(k, "refresh", r, keeper[k].token, keeper[k].namespace, keeper[k].leased)
  BY GrantAssumption DEF GrantTypeOK, AccountRows, CallbackStates, KeeperStates,
     StartRefresh, HasGrant
<1>2. UNCHANGED << home, accounts, tokens, issued, grant, grantFaults >>
  BY DEF StartRefresh, HasGrant
<1>3. TokensOfTheirGrant' BY <1>1, <1>2 DEF TokensOfTheirGrant, Refreshes
<1>4. RemovedKeepsNothing' BY <1>1, <1>2 DEF RemovedKeepsNothing
<1>5. OneRowPerCompany' BY <1>1, <1>2 DEF OneRowPerCompany, TargetsKnown, Trying,
         OfCompany
<1>6. Attempts' BY <1>1, <1>2 DEF Attempts, TargetsKnown, Trying, LeasesKnown,
         Unleased
<1>7. TargetsKnown' BY <1>1, <1>2 DEF TargetsKnown, Attempts, Trying, Unleased, OfCompany
<1>8. LeasesKnown' BY <1>1, <1>2 DEF LeasesKnown, Attempts, Unleased, TargetsKnown
<1>9. Refreshes' BY <1>1, <1>2 DEF Refreshes, Unissued, Attempts
<1>10. Unissued' BY <1>1, <1>2 DEF Unissued, Unleased, Trying, Refreshes, NoToken
<1>11. ConnectedIsOfCompany' BY <1>1, <1>2 DEF ConnectedIsOfCompany, TargetsKnown,
         Trying
<1>12. (grantFaults = 0 => Undisturbed)'
  BY <1>1, <1>2 DEF Undisturbed, TargetsKnown, LeasesKnown, Refreshes, Attempts,
     Trying, Unleased, ConnectedIsOfCompany, OneRowPerCompany
<1>13. NewestTokenIsKept'
  BY <1>1, <1>2 DEF NewestTokenIsKept, Undisturbed, Unissued, TargetsKnown, Trying,
     Unleased, ConnectedIsOfCompany, OneRowPerCompany, Refreshes
<1> QED BY <1>3, <1>4, <1>5, <1>6, <1>7, <1>8, <1>9, <1>10, <1>11, <1>12, <1>13

\* A request begins to remove.
LEMMA StartRemovalStep ==
  ASSUME GrantInv, GrantTypeOK', NEW k \in Keepers, NEW r \in Authorizations,
         StartRemoval(k, r)
  PROVE  GrantInv'
<1> USE Names DEF GrantInv, RowBecomes, TokenBecomes, CallbackBecomes, RequestBecomes
<1>1. /\ keeper[k].pc = "idle" /\ accounts[r].status # "absent"
      /\ RequestBecomes(k, "remove", r, keeper[k].token, keeper[k].namespace, keeper[k].leased)
  BY GrantAssumption DEF GrantTypeOK, AccountRows, CallbackStates, KeeperStates,
     StartRemoval
<1>2. UNCHANGED << home, accounts, tokens, issued, grant, grantFaults >>
  BY DEF StartRemoval
<1>3. TokensOfTheirGrant' BY <1>1, <1>2 DEF TokensOfTheirGrant, Refreshes
<1>4. RemovedKeepsNothing' BY <1>1, <1>2 DEF RemovedKeepsNothing
<1>5. OneRowPerCompany' BY <1>1, <1>2 DEF OneRowPerCompany, TargetsKnown, Trying,
         OfCompany
<1>6. Attempts' BY <1>1, <1>2 DEF Attempts, TargetsKnown, Trying, LeasesKnown,
         Unleased
<1>7. TargetsKnown' BY <1>1, <1>2 DEF TargetsKnown, Attempts, Trying, Unleased, OfCompany
<1>8. LeasesKnown' BY <1>1, <1>2 DEF LeasesKnown, Attempts, Unleased, TargetsKnown
<1>9. Refreshes' BY <1>1, <1>2 DEF Refreshes, Unissued, Attempts
<1>10. Unissued' BY <1>1, <1>2 DEF Unissued, Unleased, Trying, Refreshes, NoToken
<1>11. ConnectedIsOfCompany' BY <1>1, <1>2 DEF ConnectedIsOfCompany, TargetsKnown,
         Trying
<1>12. (grantFaults = 0 => Undisturbed)'
  BY <1>1, <1>2 DEF Undisturbed, TargetsKnown, LeasesKnown, Refreshes, Attempts,
     Trying, Unleased, ConnectedIsOfCompany, OneRowPerCompany
<1>13. NewestTokenIsKept'
  BY <1>1, <1>2 DEF NewestTokenIsKept, Undisturbed, Unissued, TargetsKnown, Trying,
     Unleased, ConnectedIsOfCompany, OneRowPerCompany, Refreshes
<1> QED BY <1>3, <1>4, <1>5, <1>6, <1>7, <1>8, <1>9, <1>10, <1>11, <1>12, <1>13

\* A request takes the lease of its row.
LEMMA LeaseKeptStep ==
  ASSUME GrantInv, GrantTypeOK', NEW k \in Keepers, NEW r \in Authorizations,
         LeaseForKeeper(k), keeper[k].row = r, keeper'[k].leased
  PROVE  GrantInv'
<1> USE Names DEF GrantInv, RowBecomes, TokenBecomes, CallbackBecomes, RequestBecomes
<1>1. /\ keeper[k].pc \in {"refresh", "remove"}
      /\ accounts[r].owner = Nobody \/ ~accounts[r].live
      /\ RowBecomes(r, accounts[r].status, accounts[r].company, accounts[r].namespace, k, TRUE)
      /\ RequestBecomes(k, keeper[k].pc, keeper[k].row, keeper[k].token, keeper[k].namespace, TRUE)
  BY GrantAssumption DEF GrantTypeOK, AccountRows, CallbackStates, KeeperStates,
     LeaseForKeeper, TakeRowLease, Vacant, KeeperGoes
<1>2. UNCHANGED << home, tokens, issued, grant, grantFaults >>
  BY DEF LeaseForKeeper, TakeRowLease, Vacant, KeeperGoes
<1>3. TokensOfTheirGrant' BY <1>1, <1>2 DEF TokensOfTheirGrant, Refreshes
<1>4. RemovedKeepsNothing' BY <1>1, <1>2 DEF RemovedKeepsNothing
<1>5. OneRowPerCompany' BY <1>1, <1>2 DEF OneRowPerCompany, TargetsKnown, Trying,
         OfCompany
<1>6. Attempts' BY <1>1, <1>2 DEF Attempts, TargetsKnown, Trying, LeasesKnown,
         Unleased
<1>7. TargetsKnown' BY <1>1, <1>2 DEF TargetsKnown, Attempts, Trying, Unleased, OfCompany
<1>8. LeasesKnown' BY <1>1, <1>2 DEF LeasesKnown, Attempts, Unleased, TargetsKnown
<1>9. Refreshes' BY <1>1, <1>2 DEF Refreshes, Unissued, Attempts
<1>10. Unissued' BY <1>1, <1>2 DEF Unissued, Unleased, Trying, Refreshes, NoToken
<1>11. ConnectedIsOfCompany' BY <1>1, <1>2 DEF ConnectedIsOfCompany, TargetsKnown,
         Trying
<1>12. (grantFaults = 0 => Undisturbed)'
  BY <1>1, <1>2 DEF Undisturbed, TargetsKnown, LeasesKnown, Refreshes, Attempts,
     Trying, Unleased, ConnectedIsOfCompany, OneRowPerCompany
<1>13. NewestTokenIsKept'
  BY <1>1, <1>2 DEF NewestTokenIsKept, Undisturbed, Unissued, TargetsKnown, Trying,
     Unleased, ConnectedIsOfCompany, OneRowPerCompany, Refreshes
<1> QED BY <1>3, <1>4, <1>5, <1>6, <1>7, <1>8, <1>9, <1>10, <1>11, <1>12, <1>13

\* The secret is read again under the lease.
LEMMA RereadStep ==
  ASSUME GrantInv, GrantTypeOK', NEW k \in Keepers, NEW r \in Authorizations,
         Reread(k), keeper[k].row = r, keeper'[k].pc = "reread"
  PROVE  GrantInv'
<1> USE Names DEF GrantInv, RowBecomes, TokenBecomes, CallbackBecomes, RequestBecomes
<1>1. /\ keeper[k].pc = "refresh" /\ keeper[k].leased
      /\ accounts[r].status = "connected" /\ tokens[r] \in Tokens
      /\ RequestBecomes(k, "reread", r, tokens[r], accounts[r].namespace, TRUE)
  <2>1. /\ keeper[k].pc = "refresh" /\ keeper[k].leased /\ HasGrant(r)
        /\ keeper' = [keeper EXCEPT ![k].pc = "reread", ![k].token = tokens[r],
                                    ![k].namespace = accounts[r].namespace]
    BY DEF Reread, KeeperGoes, KeeperStates
  <2> QED BY <2>1 DEF HasGrant, GrantTypeOK, KeeperStates
<1>2. UNCHANGED << home, accounts, tokens, issued, grant, grantFaults >>
  BY DEF Reread, HasGrant, KeeperGoes
<1>3. TokensOfTheirGrant' BY <1>1, <1>2 DEF TokensOfTheirGrant, Refreshes
<1>4. RemovedKeepsNothing' BY <1>1, <1>2 DEF RemovedKeepsNothing
<1>5. OneRowPerCompany' BY <1>1, <1>2 DEF OneRowPerCompany, TargetsKnown, Trying,
         OfCompany
<1>6. Attempts' BY <1>1, <1>2 DEF Attempts, TargetsKnown, Trying, LeasesKnown,
         Unleased
<1>7. TargetsKnown' BY <1>1, <1>2 DEF TargetsKnown, Attempts, Trying, Unleased, OfCompany
<1>8. LeasesKnown' BY <1>1, <1>2 DEF LeasesKnown, Attempts, Unleased, TargetsKnown
<1>9. Refreshes' BY <1>1, <1>2 DEF Refreshes, Unissued, Attempts
<1>10. Unissued' BY <1>1, <1>2 DEF Unissued, Unleased, Trying, Refreshes, NoToken
<1>11. ConnectedIsOfCompany' BY <1>1, <1>2 DEF ConnectedIsOfCompany, TargetsKnown,
         Trying
<1>12. (grantFaults = 0 => Undisturbed)'
  BY <1>1, <1>2 DEF Undisturbed, TargetsKnown, LeasesKnown, Refreshes, Attempts,
     Trying, Unleased, ConnectedIsOfCompany, OneRowPerCompany
<1>13. NewestTokenIsKept'
  BY <1>1, <1>2 DEF NewestTokenIsKept, Undisturbed, Unissued, TargetsKnown, Trying,
     Unleased, ConnectedIsOfCompany, OneRowPerCompany, Refreshes
<1> QED BY <1>3, <1>4, <1>5, <1>6, <1>7, <1>8, <1>9, <1>10, <1>11, <1>12, <1>13

\* Intuit answers with new tokens.
LEMMA RefreshStep ==
  ASSUME GrantInv, GrantTypeOK', NEW k \in Keepers, NEW by \in Authorizations,
         Refresh(k), by = keeper[k].token.by
  PROVE  GrantInv'
<1> USE Names DEF GrantInv, RowBecomes, TokenBecomes, CallbackBecomes, RequestBecomes
<1>1. /\ keeper[k].pc = "reread"
      /\ keeper'[k].fresh = [by |-> by, nth |-> issued[by] + 1]
      /\ keeper'[k].fresh \in Tokens
      /\ issued'[by] = issued[by] + 1 /\ \A z \in Authorizations \ {by} : issued'[z] = issued[z]
      /\ RequestBecomes(k, "exchanged", keeper[k].row, keeper[k].token, keeper[k].namespace, keeper[k].leased)
  BY GrantAssumption DEF GrantTypeOK, AccountRows, CallbackStates, KeeperStates,
     Tokens, Refresh
<1>2. UNCHANGED << home, accounts, tokens, grant, grantFaults >>
  BY DEF Refresh
<1>3. TokensOfTheirGrant' BY <1>1, <1>2 DEF TokensOfTheirGrant, Refreshes
<1>4. RemovedKeepsNothing' BY <1>1, <1>2 DEF RemovedKeepsNothing
<1>5. OneRowPerCompany' BY <1>1, <1>2 DEF OneRowPerCompany, TargetsKnown, Trying,
         OfCompany
<1>6. Attempts' BY <1>1, <1>2 DEF Attempts, TargetsKnown, Trying, LeasesKnown,
         Unleased
<1>7. TargetsKnown' BY <1>1, <1>2 DEF TargetsKnown, Attempts, Trying, Unleased, OfCompany
<1>8. LeasesKnown' BY <1>1, <1>2 DEF LeasesKnown, Attempts, Unleased, TargetsKnown
<1>9. Refreshes' BY <1>1, <1>2 DEF Refreshes, Unissued, Attempts
<1>10. Unissued' BY <1>1, <1>2 DEF Unissued, Unleased, Trying, Refreshes, NoToken
<1>11. ConnectedIsOfCompany' BY <1>1, <1>2 DEF ConnectedIsOfCompany, TargetsKnown,
         Trying
<1>12. (grantFaults = 0 => Undisturbed)'
  BY <1>1, <1>2 DEF Undisturbed, TargetsKnown, LeasesKnown, Refreshes, Attempts,
     Trying, Unleased, ConnectedIsOfCompany, OneRowPerCompany
<1>13. NewestTokenIsKept'
  BY <1>1, <1>2 DEF NewestTokenIsKept, Undisturbed, Unissued, TargetsKnown, Trying,
     Unleased, ConnectedIsOfCompany, OneRowPerCompany, Refreshes
<1> QED BY <1>3, <1>4, <1>5, <1>6, <1>7, <1>8, <1>9, <1>10, <1>11, <1>12, <1>13

\* They replace the old ones.
LEMMA ReplaceStep ==
  ASSUME GrantInv, GrantTypeOK', NEW k \in Keepers, NEW r \in Authorizations,
         SaveRefreshed(k), keeper[k].row = r, MayReplace(k)
  PROVE  GrantInv'
<1> USE Names DEF GrantInv, RowBecomes, TokenBecomes, CallbackBecomes, RequestBecomes
<1>1. /\ keeper[k].pc = "exchanged"
      /\ tokens[r] = keeper[k].token /\ accounts[r].status = "connected"
      /\ TokenBecomes(r, keeper[k].fresh)
      /\ RequestBecomes(k, "releasing", keeper[k].row, keeper[k].token, keeper[k].namespace, keeper[k].leased)
  BY GrantAssumption DEF GrantTypeOK, AccountRows, CallbackStates, KeeperStates,
     SaveRefreshed, MayReplace, KeeperGoes
<1>2. UNCHANGED << home, accounts, issued, grant, grantFaults >>
  BY DEF SaveRefreshed, MayReplace, KeeperGoes
<1>3. TokensOfTheirGrant' BY <1>1, <1>2 DEF TokensOfTheirGrant, Refreshes
<1>4. RemovedKeepsNothing' BY <1>1, <1>2 DEF RemovedKeepsNothing
<1>5. OneRowPerCompany' BY <1>1, <1>2 DEF OneRowPerCompany, TargetsKnown, Trying,
         OfCompany
<1>6. Attempts' BY <1>1, <1>2 DEF Attempts, TargetsKnown, Trying, LeasesKnown,
         Unleased
<1>7. TargetsKnown' BY <1>1, <1>2 DEF TargetsKnown, Attempts, Trying, Unleased, OfCompany
<1>8. LeasesKnown' BY <1>1, <1>2 DEF LeasesKnown, Attempts, Unleased, TargetsKnown
<1>9. Refreshes' BY <1>1, <1>2 DEF Refreshes, Unissued, Attempts
<1>10. Unissued' BY <1>1, <1>2 DEF Unissued, Unleased, Trying, Refreshes, NoToken
<1>11. ConnectedIsOfCompany' BY <1>1, <1>2 DEF ConnectedIsOfCompany, TargetsKnown,
         Trying
<1>12. (grantFaults = 0 => Undisturbed)'
  BY <1>1, <1>2 DEF Undisturbed, TargetsKnown, LeasesKnown, Refreshes, Attempts,
     Trying, Unleased, ConnectedIsOfCompany, OneRowPerCompany
<1>13. NewestTokenIsKept'
  BY <1>1, <1>2 DEF NewestTokenIsKept, Undisturbed, Unissued, TargetsKnown, Trying,
     Unleased, ConnectedIsOfCompany, OneRowPerCompany, Refreshes
<1> QED BY <1>3, <1>4, <1>5, <1>6, <1>7, <1>8, <1>9, <1>10, <1>11, <1>12, <1>13

\* A removal reads the row.
LEMMA ReadForRemovalStep ==
  ASSUME GrantInv, GrantTypeOK', NEW k \in Keepers, NEW r \in Authorizations,
         ReadForRemoval(k), keeper[k].row = r, keeper'[k].pc = "removing"
  PROVE  GrantInv'
<1> USE Names DEF GrantInv, RowBecomes, TokenBecomes, CallbackBecomes, RequestBecomes
<1>1. /\ keeper[k].pc = "remove"
      /\ RequestBecomes(k, "removing", keeper[k].row, keeper[k].token, accounts[r].namespace, keeper[k].leased)
  <2>1. /\ keeper[k].pc = "remove"
        /\ keeper' = [keeper EXCEPT ![k].pc = "removing", ![k].namespace = accounts[r].namespace]
    BY DEF ReadForRemoval, KeeperGoes, KeeperStates
  <2> QED BY <2>1 DEF KeeperStates
<1>2. UNCHANGED << home, accounts, tokens, issued, grant, grantFaults >>
  BY DEF ReadForRemoval, KeeperGoes
<1>3. TokensOfTheirGrant' BY <1>1, <1>2 DEF TokensOfTheirGrant, Refreshes
<1>4. RemovedKeepsNothing' BY <1>1, <1>2 DEF RemovedKeepsNothing
<1>5. OneRowPerCompany' BY <1>1, <1>2 DEF OneRowPerCompany, TargetsKnown, Trying,
         OfCompany
<1>6. Attempts' BY <1>1, <1>2 DEF Attempts, TargetsKnown, Trying, LeasesKnown,
         Unleased
<1>7. TargetsKnown' BY <1>1, <1>2 DEF TargetsKnown, Attempts, Trying, Unleased, OfCompany
<1>8. LeasesKnown' BY <1>1, <1>2 DEF LeasesKnown, Attempts, Unleased, TargetsKnown
<1>9. Refreshes' BY <1>1, <1>2 DEF Refreshes, Unissued, Attempts
<1>10. Unissued' BY <1>1, <1>2 DEF Unissued, Unleased, Trying, Refreshes, NoToken
<1>11. ConnectedIsOfCompany' BY <1>1, <1>2 DEF ConnectedIsOfCompany, TargetsKnown,
         Trying
<1>12. (grantFaults = 0 => Undisturbed)'
  BY <1>1, <1>2 DEF Undisturbed, TargetsKnown, LeasesKnown, Refreshes, Attempts,
     Trying, Unleased, ConnectedIsOfCompany, OneRowPerCompany
<1>13. NewestTokenIsKept'
  BY <1>1, <1>2 DEF NewestTokenIsKept, Undisturbed, Unissued, TargetsKnown, Trying,
     Unleased, ConnectedIsOfCompany, OneRowPerCompany, Refreshes
<1> QED BY <1>3, <1>4, <1>5, <1>6, <1>7, <1>8, <1>9, <1>10, <1>11, <1>12, <1>13

\* The grant is removed.
LEMMA RemoveStep ==
  ASSUME GrantInv, GrantTypeOK', NEW k \in Keepers, NEW r \in Authorizations,
         RemoveGrant(k), keeper[k].row = r, MayRemove(k)
  PROVE  GrantInv'
<1> USE Names DEF GrantInv, RowBecomes, TokenBecomes, CallbackBecomes, RequestBecomes
<1>1. /\ keeper[k].pc = "removing" /\ accounts[r].owner = k
      /\ TokenBecomes(r, NoToken)
      /\ RowBecomes(r, "revoked", FALSE, accounts[r].namespace, accounts[r].owner, accounts[r].live)
      /\ RequestBecomes(k, "releasing", keeper[k].row, keeper[k].token, keeper[k].namespace, keeper[k].leased)
  <2>1. /\ keeper[k].pc = "removing" /\ accounts[r].owner = k
        /\ tokens' = [tokens EXCEPT ![r] = NoToken]
        /\ accounts' = [accounts EXCEPT ![r].status = "revoked", ![r].company = FALSE]
        /\ keeper' = [keeper EXCEPT ![k].pc = "releasing"]
    BY DEF RemoveGrant, MayRemove, HoldsRow, KeeperGoes
  <2> QED BY <2>1 DEF GrantTypeOK, AccountRows, KeeperStates
<1>2. UNCHANGED << home, issued, grant, grantFaults >>
  BY DEF RemoveGrant, MayRemove, HoldsRow, KeeperGoes
<1>3. TokensOfTheirGrant' BY <1>1, <1>2 DEF TokensOfTheirGrant, Refreshes
<1>4. RemovedKeepsNothing' BY <1>1, <1>2 DEF RemovedKeepsNothing
<1>5. OneRowPerCompany' BY <1>1, <1>2 DEF OneRowPerCompany, TargetsKnown, Trying,
         OfCompany
<1>6. Attempts' BY <1>1, <1>2 DEF Attempts, TargetsKnown, Trying, LeasesKnown, Refreshes,
         Unleased
<1>7. TargetsKnown' BY <1>1, <1>2 DEF TargetsKnown, Attempts, Trying, Unleased, OfCompany
<1>8. LeasesKnown' BY <1>1, <1>2 DEF LeasesKnown, Attempts, Unleased, TargetsKnown
<1>9. Refreshes' BY <1>1, <1>2 DEF Refreshes, Unissued, Attempts
<1>10. Unissued' BY <1>1, <1>2 DEF Unissued, Unleased, Trying, Refreshes, NoToken
<1>11. ConnectedIsOfCompany' BY <1>1, <1>2 DEF ConnectedIsOfCompany, TargetsKnown,
         Trying
<1>12. (grantFaults = 0 => Undisturbed)'
  BY <1>1, <1>2 DEF Undisturbed, TargetsKnown, LeasesKnown, Refreshes, Attempts,
     Trying, Unleased, ConnectedIsOfCompany, OneRowPerCompany
<1>13. NewestTokenIsKept'
  BY <1>1, <1>2 DEF NewestTokenIsKept, Undisturbed, Unissued, TargetsKnown, Trying,
     Unleased, ConnectedIsOfCompany, OneRowPerCompany, Refreshes
<1> QED BY <1>3, <1>4, <1>5, <1>6, <1>7, <1>8, <1>9, <1>10, <1>11, <1>12, <1>13

\* A request gives back its lease.
LEMMA ReturnKeptStep ==
  ASSUME GrantInv, GrantTypeOK', NEW k \in Keepers, NEW r \in Authorizations,
         KeeperReleases(k), keeper[k].row = r, accounts[r].owner = k
  PROVE  GrantInv'
<1> USE Names DEF GrantInv, RowBecomes, TokenBecomes, CallbackBecomes, RequestBecomes
<1>1. /\ keeper[k].pc = "releasing"
      /\ RowBecomes(r, accounts[r].status, accounts[r].company, accounts[r].namespace, Nobody, FALSE)
      /\ RequestBecomes(k, "ended", keeper[k].row, keeper[k].token, keeper[k].namespace, keeper[k].leased)
  BY GrantAssumption DEF GrantTypeOK, AccountRows, CallbackStates, KeeperStates,
     KeeperReleases, GiveBack, KeeperGoes
<1>2. UNCHANGED << home, tokens, issued, grant, grantFaults >>
  BY DEF KeeperReleases, GiveBack, KeeperGoes
<1>3. TokensOfTheirGrant' BY <1>1, <1>2 DEF TokensOfTheirGrant, Refreshes
<1>4. RemovedKeepsNothing' BY <1>1, <1>2 DEF RemovedKeepsNothing
<1>5. OneRowPerCompany' BY <1>1, <1>2 DEF OneRowPerCompany, TargetsKnown, Trying,
         OfCompany
<1>6. Attempts' BY <1>1, <1>2 DEF Attempts, TargetsKnown, Trying, LeasesKnown,
         Unleased
<1>7. TargetsKnown' BY <1>1, <1>2 DEF TargetsKnown, Attempts, Trying, Unleased, OfCompany
<1>8. LeasesKnown' BY <1>1, <1>2 DEF LeasesKnown, Attempts, Unleased, TargetsKnown
<1>9. Refreshes' BY <1>1, <1>2 DEF Refreshes, Unissued, Attempts
<1>10. Unissued' BY <1>1, <1>2 DEF Unissued, Unleased, Trying, Refreshes, NoToken
<1>11. ConnectedIsOfCompany' BY <1>1, <1>2 DEF ConnectedIsOfCompany, TargetsKnown,
         Trying
<1>12. (grantFaults = 0 => Undisturbed)'
  BY <1>1, <1>2 DEF Undisturbed, TargetsKnown, LeasesKnown, Refreshes, Attempts,
     Trying, Unleased, ConnectedIsOfCompany, OneRowPerCompany
<1>13. NewestTokenIsKept'
  BY <1>1, <1>2 DEF NewestTokenIsKept, Undisturbed, Unissued, TargetsKnown, Trying,
     Unleased, ConnectedIsOfCompany, OneRowPerCompany, Refreshes
<1> QED BY <1>3, <1>4, <1>5, <1>6, <1>7, <1>8, <1>9, <1>10, <1>11, <1>12, <1>13

\* A lease runs out.
LEMMA LeaseEndsStep ==
  ASSUME GrantInv, GrantTypeOK', NEW r \in Authorizations,
         LeaseEnds(r)
  PROVE  GrantInv'
<1> USE Names DEF GrantInv, RowBecomes, TokenBecomes, CallbackBecomes, RequestBecomes
<1>1. /\ accounts[r].live /\ accounts[r].owner \in Authorizations \cup Keepers \cup {Nobody}
      /\ RowBecomes(r, accounts[r].status, accounts[r].company, accounts[r].namespace, accounts[r].owner, FALSE)
  BY GrantAssumption DEF GrantTypeOK, AccountRows, CallbackStates, KeeperStates,
     Owners, LeaseEnds
<1>2. /\ UNCHANGED << home, tokens, issued, grant, keeper >>
      /\ \/ grantFaults' = grantFaults + 1
         \/ grantFaults' = grantFaults /\ ~AtWork(accounts[r].owner)
  BY DEF LeaseEnds, Fault
<1>3. TokensOfTheirGrant' BY <1>1, <1>2 DEF TokensOfTheirGrant, Refreshes
<1>4. RemovedKeepsNothing' BY <1>1, <1>2 DEF RemovedKeepsNothing
<1>5. OneRowPerCompany' BY <1>1, <1>2 DEF OneRowPerCompany, TargetsKnown, Trying,
         OfCompany
<1>6. Attempts' BY <1>1, <1>2 DEF Attempts, TargetsKnown, Trying, LeasesKnown,
         Unleased
<1>7. TargetsKnown' BY <1>1, <1>2 DEF TargetsKnown, Attempts, Trying, Unleased, OfCompany
<1>8. LeasesKnown' BY <1>1, <1>2 DEF LeasesKnown, Attempts, Unleased, TargetsKnown
<1>9. Refreshes' BY <1>1, <1>2 DEF Refreshes, Unissued, Attempts
<1>10. Unissued' BY <1>1, <1>2 DEF Unissued, Unleased, Trying, Refreshes, NoToken
<1>11. ConnectedIsOfCompany' BY <1>1, <1>2 DEF ConnectedIsOfCompany, TargetsKnown,
         Trying
<1>12. (grantFaults = 0 => Undisturbed)'
  BY <1>1, <1>2 DEF Undisturbed, AtWork, TargetsKnown, LeasesKnown, Refreshes, Attempts,
     Trying, Unleased, ConnectedIsOfCompany, OneRowPerCompany
<1>13. NewestTokenIsKept'
  BY <1>1, <1>2 DEF NewestTokenIsKept, Undisturbed, Unissued, TargetsKnown, Trying,
     Unleased, ConnectedIsOfCompany, OneRowPerCompany, Refreshes
<1> QED BY <1>3, <1>4, <1>5, <1>6, <1>7, <1>8, <1>9, <1>10, <1>11, <1>12, <1>13

\* A callback that goes on, fails, ends or dies and changes nothing else.
LEMMA CallbackGoesStep ==
  ASSUME GrantInv, GrantTypeOK', NEW a \in Authorizations, NEW pc, GrantGoes(a, pc),
         UNCHANGED << home, accounts, tokens, issued, keeper >>,
         \/ pc = "dead" /\ grant[a].pc \notin {"idle", "away", "ended", "dead"}
         \/ pc = "failed" /\ grant[a].pc \in {"away"} \cup (Trying \ {"saved"})
         \/ pc \in {"declined", "ended"} /\ grant[a].pc = "away"
         \/ pc = "checked" /\ grant[a].pc = "leased"
         \/ pc = "both" /\ grant[a].pc = "checked" /\ grant[a].target = a
         \/ pc = "half" /\ grant[a].pc = "failed"
         \/ pc = "marked" /\ grant[a].pc \in {"saved", "failed", "half"}
         \/ /\ pc = "released" /\ grant[a].pc = "marked"
            /\ grant[a].other => accounts[grant[a].target].owner # a
         \/ /\ pc = "ended" /\ grant[a].pc = "released"
            /\ grant[a].own => accounts[a].owner # a,
         \/ grantFaults' = grantFaults /\ pc # "dead"
         \/ grantFaults' = grantFaults + 1
  PROVE  GrantInv'
<1> USE Names DEF GrantInv, RowBecomes, TokenBecomes, CallbackBecomes, RequestBecomes
<1>1. CallbackBecomes(a, pc, grant[a].target, grant[a].own, grant[a].other)
  BY DEF GrantGoes, CallbackStates
<1>2. UNCHANGED << home, accounts, tokens, issued, keeper >>
  OBVIOUS
<1>3. TokensOfTheirGrant' BY <1>1, <1>2 DEF TokensOfTheirGrant, Refreshes
<1>4. RemovedKeepsNothing' BY <1>1, <1>2 DEF RemovedKeepsNothing
<1>5. OneRowPerCompany' BY <1>1, <1>2 DEF OneRowPerCompany, TargetsKnown, Trying,
         OfCompany
<1>6. Attempts' BY <1>1, <1>2 DEF Attempts, TargetsKnown, Trying, LeasesKnown,
         Unleased
<1>7. TargetsKnown' BY <1>1, <1>2 DEF TargetsKnown, Attempts, Trying, Unleased,
         OfCompany
<1>8. LeasesKnown' BY <1>1, <1>2 DEF LeasesKnown, Attempts, Unleased, TargetsKnown
<1>9. Refreshes' BY <1>1, <1>2 DEF Refreshes, Unissued, Attempts
<1>10. Unissued' BY <1>1, <1>2 DEF Unissued, Unleased, Trying, Refreshes, NoToken
<1>11. ConnectedIsOfCompany' BY <1>1, <1>2 DEF ConnectedIsOfCompany, TargetsKnown,
         Trying
<1>12. (grantFaults = 0 => Undisturbed)'
  BY <1>1, <1>2 DEF Undisturbed, TargetsKnown, LeasesKnown, Refreshes, Attempts,
     Trying, Unleased, ConnectedIsOfCompany, OneRowPerCompany
<1>13. NewestTokenIsKept'
  BY <1>1, <1>2 DEF NewestTokenIsKept, Undisturbed, Unissued, TargetsKnown, Trying,
     Unleased, ConnectedIsOfCompany, OneRowPerCompany, Refreshes
<1> QED BY <1>3, <1>4, <1>5, <1>6, <1>7, <1>8, <1>9, <1>10, <1>11, <1>12, <1>13

\* A request that ends, dies or gives up and changes nothing else.
LEMMA RequestGoesStep ==
  ASSUME GrantInv, GrantTypeOK', NEW k \in Keepers, NEW pc, KeeperGoes(k, pc),
         UNCHANGED << home, accounts, tokens, issued, grant >>,
         \/ pc = "dead" /\ keeper[k].pc \notin {"idle", "ended", "dead"}
         \/ /\ pc = "releasing"
            /\ keeper[k].pc \in {"refresh", "reread", "exchanged", "remove", "removing"}
         \/ pc = "ended" /\ keeper[k].pc # "idle" /\ ~keeper[k].leased
         \/ /\ pc = "ended" /\ keeper[k].pc = "releasing"
            /\ accounts[keeper[k].row].owner # k,
         \/ grantFaults' = grantFaults /\ pc # "dead"
         \/ grantFaults' = grantFaults + 1,
         keeper[k].pc = "exchanged" => grantFaults' # 0
  PROVE  GrantInv'
<1> USE Names DEF GrantInv, RowBecomes, TokenBecomes, CallbackBecomes, RequestBecomes
<1>1. RequestBecomes(k, pc, keeper[k].row, keeper[k].token, keeper[k].namespace, keeper[k].leased)
  BY DEF KeeperGoes, KeeperStates
<1>2. UNCHANGED << home, accounts, tokens, issued, grant >>
  OBVIOUS
<1>3. TokensOfTheirGrant' BY <1>1, <1>2 DEF TokensOfTheirGrant, Refreshes
<1>4. RemovedKeepsNothing' BY <1>1, <1>2 DEF RemovedKeepsNothing
<1>5. OneRowPerCompany' BY <1>1, <1>2 DEF OneRowPerCompany, TargetsKnown, Trying,
         OfCompany
<1>6. Attempts' BY <1>1, <1>2 DEF Attempts, TargetsKnown, Trying, LeasesKnown,
         Unleased
<1>7. TargetsKnown' BY <1>1, <1>2 DEF TargetsKnown, Attempts, Trying, Unleased,
         OfCompany
<1>8. LeasesKnown' BY <1>1, <1>2 DEF LeasesKnown, Attempts, Unleased, TargetsKnown
<1>9. Refreshes' BY <1>1, <1>2 DEF Refreshes, Unissued, Attempts
<1>10. Unissued' BY <1>1, <1>2 DEF Unissued, Unleased, Trying, Refreshes, NoToken
<1>11. ConnectedIsOfCompany' BY <1>1, <1>2 DEF ConnectedIsOfCompany, TargetsKnown,
         Trying
<1>12. (grantFaults = 0 => Undisturbed)'
  BY <1>1, <1>2 DEF Undisturbed, TargetsKnown, LeasesKnown, Refreshes, Attempts,
     Trying, Unleased, ConnectedIsOfCompany, OneRowPerCompany
<1>13. NewestTokenIsKept'
  BY <1>1, <1>2 DEF NewestTokenIsKept, Undisturbed, Unissued, TargetsKnown, Trying,
     Unleased, ConnectedIsOfCompany, OneRowPerCompany, Refreshes
<1> QED BY <1>3, <1>4, <1>5, <1>6, <1>7, <1>8, <1>9, <1>10, <1>11, <1>12, <1>13

-----------------------------------------------------------------------------
(* Every step preserves the invariant.                                     *)

\* A refresh whose tokens are not stored has been disturbed.
LEMMA LostRefresh ==
  ASSUME GrantInv, NEW k \in Keepers, keeper[k].pc = "exchanged", ~MayReplace(k)
  PROVE  grantFaults # 0
<1>1. SUFFICES ASSUME Undisturbed PROVE MayReplace(k)
  BY DEF GrantInv
<1>2. keeper[k].row \in Authorizations
  BY DEF GrantInv, Refreshes
<1>3. k # Nobody
  BY GrantAssumption
<1> QED BY <1>1, <1>2, <1>3 DEF Undisturbed, MayReplace, HoldsRow

LEMMA CallbackKeepsInv ==
  ASSUME GrantInv, NEW a \in Authorizations, CallbackStep(a)
  PROVE  GrantInv'
<1> DEFINE b == grant[a].target
<1> USE DEF Trying
<1>0. GrantTypeOK /\ GrantTypeOK'
  <2>1. GrantTypeOK BY DEF GrantInv
  <2> HIDE DEF b
  <2> QED BY <2>1, AuthorizeCompanyType, NotAvailableType, DeclinesType, DropDeclinedType,
             ExchangeType, LeaseOwnRowType, CheckAttemptType, LeaseTargetType,
             WriteMetadataType, SaveTokensType, DropAttemptType, MarkTargetType,
             MarkAttemptType, ReleaseTargetType, ReleaseAttemptType, GrantThrowsType,
             SaveAnswerLostType, GrantDiesType DEF CallbackStep
<1>t. grant[a].pc \in Trying => b \in Authorizations
  BY DEF GrantInv, TargetsKnown
<1>o. grant[a].other => b \in Authorizations
  BY DEF GrantInv, TargetsKnown
<1> HIDE DEF b
<1>1. CASE AuthorizeCompany(a)
  BY <1>0, <1>1, AuthorizeStep
<1>2. CASE NotAvailable(a) \/ Declines(a)
  BY <1>0, <1>2, CallbackGoesStep DEF NotAvailable, Declines
<1>3. CASE DropDeclined(a)
  BY <1>0, <1>3, DropDeclinedStep
<1>4. CASE Exchange(a)
  <2>1. CASE GrantGoes(a, "failed")
    BY <1>0, <1>4, <2>1, CallbackGoesStep DEF Exchange
  <2>2. CASE ~GrantGoes(a, "failed")
    <3>1. /\ grant'[a].pc = "found"
          /\ grant'[a].target \in Authorizations
      <4>1. CASE grant' = [grant EXCEPT ![a].pc = "found", ![a].target = a]
        BY <1>0, <4>1 DEF GrantTypeOK, CallbackStates
      <4>2. ASSUME NEW d \in Authorizations,
                   grant' = [grant EXCEPT ![a].pc = "found", ![a].target = d,
                                ![a].seen = accounts[d].status, ![a].was = accounts[d].namespace]
            PROVE  grant'[a].pc = "found" /\ grant'[a].target \in Authorizations
        BY <1>0, <4>2 DEF GrantTypeOK, CallbackStates
      <4> QED BY <1>4, <2>2, <4>1, <4>2 DEF Exchange
    <3> QED BY <1>0, <1>4, <3>1, FindStep
  <2> QED BY <2>1, <2>2
<1>5. CASE LeaseOwnRow(a)
  <2>1. CASE GrantGoes(a, "failed") /\ UNCHANGED accounts
    BY <1>0, <1>5, <2>1, CallbackGoesStep DEF LeaseOwnRow
  <2>2. CASE grant' = [grant EXCEPT ![a].pc = "leased", ![a].own = TRUE]
    <3>1. grant'[a].pc = "leased"
      BY <1>0, <2>2 DEF GrantTypeOK, CallbackStates
    <3> QED BY <1>0, <1>5, <3>1, LeaseOwnStep
  <2> QED BY <1>5, <2>1, <2>2 DEF LeaseOwnRow
<1>6. CASE CheckAttempt(a)
  BY <1>0, <1>6, CallbackGoesStep DEF CheckAttempt
<1>7. CASE LeaseTarget(a)
  <2>0. grant[a].pc = "checked"
    BY <1>7 DEF LeaseTarget
  <2>1. CASE (GrantGoes(a, "failed") \/ (a = b /\ GrantGoes(a, "both"))) /\ UNCHANGED accounts
    BY <1>0, <1>7, <2>0, <2>1, CallbackGoesStep DEF LeaseTarget, b
  <2>2. CASE a # b /\ grant' = [grant EXCEPT ![a].pc = "both", ![a].other = TRUE]
    <3>1. grant'[a].pc = "both"
      BY <1>0, <2>2 DEF GrantTypeOK, CallbackStates
    <3> QED BY <1>0, <1>7, <1>t, <2>0, <2>2, <3>1, LeaseOtherStep DEF b
  <2> QED BY <1>7, <2>1, <2>2 DEF LeaseTarget, b
<1>8. CASE WriteMetadata(a)
  <2>0. grant[a].pc = "both"
    BY <1>8 DEF WriteMetadata
  <2>1. CASE Unchanged(a)
    BY <1>0, <1>8, <1>t, <2>0, <2>1, WriteStep DEF b
  <2>2. CASE ~Unchanged(a)
    BY <1>0, <1>8, <2>0, <2>2, CallbackGoesStep DEF WriteMetadata
  <2> QED BY <2>1, <2>2
<1>9. CASE SaveTokens(a)
  <2>0. grant[a].pc = "saving"
    BY <1>9 DEF SaveTokens
  <2>1. CASE MaySave(a, b)
    BY <1>0, <1>9, <1>t, <2>0, <2>1, SaveStep DEF b
  <2>2. CASE ~MaySave(a, b)
    BY <1>0, <1>9, <2>0, <2>2, CallbackGoesStep DEF SaveTokens, b
  <2> QED BY <2>1, <2>2
<1>10. CASE DropAttempt(a)
  <2>1. CASE b # a
    BY <1>0, <1>10, <2>1, DropOwnStep DEF b
  <2>2. CASE b = a
    BY <1>0, <1>10, <2>2, CallbackGoesStep DEF DropAttempt, b
  <2> QED BY <2>1, <2>2
<1>11. CASE MarkTarget(a)
  <2>1. CASE UNCHANGED accounts
    BY <1>0, <1>11, <2>1, CallbackGoesStep DEF MarkTarget
  <2>2. CASE accounts' # accounts
    <3>1. b \in Authorizations
      BY <1>11, <1>o, <2>2 DEF MarkTarget
    <3> QED BY <1>0, <1>11, <2>2, <3>1, MarkStep DEF b
  <2> QED BY <2>1, <2>2
<1>12. CASE MarkAttempt(a)
  <2>1. CASE UNCHANGED accounts
    BY <1>0, <1>12, <2>1, CallbackGoesStep DEF MarkAttempt
  <2>2. CASE accounts' # accounts
    BY <1>0, <1>12, <2>2, MarkStep
  <2> QED BY <2>1, <2>2
<1>13. CASE ReleaseTarget(a)
  <2>1. CASE grant[a].other /\ accounts[b].owner = a
    BY <1>0, <1>13, <1>o, <2>1, ReturnStep DEF b
  <2>2. CASE ~(grant[a].other /\ accounts[b].owner = a)
    BY <1>0, <1>13, <2>2, CallbackGoesStep DEF ReleaseTarget, GiveBack, b
  <2> QED BY <2>1, <2>2
<1>14. CASE ReleaseAttempt(a)
  <2>1. CASE grant[a].own /\ accounts[a].owner = a
    BY <1>0, <1>14, <2>1, ReturnStep
  <2>2. CASE ~(grant[a].own /\ accounts[a].owner = a)
    BY <1>0, <1>14, <2>2, CallbackGoesStep DEF ReleaseAttempt, GiveBack
  <2> QED BY <2>1, <2>2
<1>15. CASE GrantThrows(a)
  BY <1>0, <1>15, CallbackGoesStep DEF GrantThrows, Fault
<1>16. CASE SaveAnswerLost(a)
  <2>0. grant[a].pc = "saving"
    BY <1>16 DEF SaveAnswerLost
  <2> QED BY <1>0, <1>16, <1>t, <2>0, SaveStep DEF b
<1>17. CASE GrantDies(a)
  BY <1>0, <1>17, CallbackGoesStep DEF GrantDies, Fault
<1> QED BY <1>1, <1>2, <1>3, <1>4, <1>5, <1>6, <1>7, <1>8, <1>9, <1>10, <1>11, <1>12,
           <1>13, <1>14, <1>15, <1>16, <1>17 DEF CallbackStep

LEMMA KeeperKeepsInv ==
  ASSUME GrantInv, NEW k \in Keepers, KeeperStep(k)
  PROVE  GrantInv'
<1> DEFINE r == keeper[k].row
<1>r. keeper[k].pc # "idle" => r \in Authorizations
  BY DEF GrantInv, Refreshes
<1>f. keeper[k].pc \in {"reread", "exchanged"} => keeper[k].token.by \in Authorizations
  BY DEF GrantInv, Refreshes, Tokens
<1> HIDE DEF r
<1>0. GrantTypeOK /\ GrantTypeOK'
  <2>1. GrantTypeOK BY DEF GrantInv
  <2>2. CASE Reread(k)
    BY <1>r, <2>1, <2>2, RereadType DEF Reread, r
  <2>3. CASE Refresh(k)
    BY <1>f, <2>1, <2>3, RefreshType DEF Refresh
  <2>4. CASE ReadForRemoval(k)
    BY <1>r, <2>1, <2>4, ReadForRemovalType DEF ReadForRemoval, r
  <2> QED BY <2>1, <2>2, <2>3, <2>4, StartRefreshType, StartRemovalType, LeaseForKeeperType,
             SaveRefreshedType, RemoveGrantType, KeeperReleasesType, KeeperThrowsType,
             KeeperDiesType DEF KeeperStep
<1>1. ASSUME NEW s \in Authorizations, StartRefresh(k, s) PROVE GrantInv'
  BY <1>0, <1>1, StartRefreshStep
<1>2. ASSUME NEW s \in Authorizations, StartRemoval(k, s) PROVE GrantInv'
  BY <1>0, <1>2, StartRemovalStep
<1>3. CASE LeaseForKeeper(k)
  <2>0. keeper[k].pc \in {"refresh", "remove"} /\ ~keeper[k].leased
    BY <1>3 DEF LeaseForKeeper
  <2>1. CASE KeeperGoes(k, "ended") /\ UNCHANGED accounts
    BY <1>0, <1>3, <2>0, <2>1, RequestGoesStep DEF LeaseForKeeper
  <2>2. CASE keeper' = [keeper EXCEPT ![k].leased = TRUE]
    <3>1. keeper'[k].leased
      BY <1>0, <2>2 DEF GrantTypeOK, KeeperStates
    <3> QED BY <1>0, <1>3, <1>r, <2>0, <3>1, LeaseKeptStep DEF r
  <2> QED BY <1>3, <2>1, <2>2 DEF LeaseForKeeper
<1>4. CASE Reread(k)
  <2>0. keeper[k].pc = "refresh"
    BY <1>4 DEF Reread
  <2>1. CASE KeeperGoes(k, "releasing")
    BY <1>0, <1>4, <2>0, <2>1, RequestGoesStep DEF Reread
  <2>2. CASE ~KeeperGoes(k, "releasing")
    <3>1. keeper' = [keeper EXCEPT ![k].pc = "reread", ![k].token = tokens[r],
                                   ![k].namespace = accounts[r].namespace]
      BY <1>4, <2>2 DEF Reread, r
    <3>2. keeper'[k].pc = "reread"
      BY <1>0, <3>1 DEF GrantTypeOK, KeeperStates
    <3> QED BY <1>0, <1>4, <1>r, <2>0, <3>2, RereadStep DEF r
  <2> QED BY <2>1, <2>2
<1>5. CASE Refresh(k)
  BY <1>0, <1>5, <1>f, RefreshStep DEF Refresh
<1>6. CASE SaveRefreshed(k)
  <2>0. keeper[k].pc = "exchanged"
    BY <1>6 DEF SaveRefreshed
  <2>1. CASE MayReplace(k)
    BY <1>0, <1>6, <1>r, <2>0, <2>1, ReplaceStep DEF r
  <2>2. CASE ~MayReplace(k)
    BY <1>0, <1>6, <2>0, <2>2, LostRefresh, RequestGoesStep DEF SaveRefreshed
  <2> QED BY <2>1, <2>2
<1>7. CASE ReadForRemoval(k)
  <2>0. keeper[k].pc = "remove"
    BY <1>7 DEF ReadForRemoval
  <2>1. CASE KeeperGoes(k, "releasing")
    BY <1>0, <1>7, <2>0, <2>1, RequestGoesStep DEF ReadForRemoval
  <2>2. CASE ~KeeperGoes(k, "releasing")
    <3>1. keeper' = [keeper EXCEPT ![k].pc = "removing",
                                   ![k].namespace = accounts[r].namespace]
      BY <1>7, <2>2 DEF ReadForRemoval, r
    <3>2. keeper'[k].pc = "removing"
      BY <1>0, <3>1 DEF GrantTypeOK, KeeperStates
    <3> QED BY <1>0, <1>7, <1>r, <2>0, <3>2, ReadForRemovalStep DEF r
  <2> QED BY <2>1, <2>2
<1>8. CASE RemoveGrant(k)
  <2>0. keeper[k].pc = "removing"
    BY <1>8 DEF RemoveGrant
  <2>1. CASE MayRemove(k)
    BY <1>0, <1>8, <1>r, <2>0, <2>1, RemoveStep DEF r
  <2>2. CASE ~MayRemove(k)
    BY <1>0, <1>8, <2>0, <2>2, RequestGoesStep DEF RemoveGrant
  <2> QED BY <2>1, <2>2
<1>9. CASE KeeperReleases(k)
  <2>0. keeper[k].pc = "releasing"
    BY <1>9 DEF KeeperReleases
  <2>1. CASE accounts[r].owner = k
    BY <1>0, <1>9, <1>r, <2>0, <2>1, ReturnKeptStep DEF r
  <2>2. CASE accounts[r].owner # k
    BY <1>0, <1>9, <2>0, <2>2, RequestGoesStep DEF KeeperReleases, GiveBack, r
  <2> QED BY <2>1, <2>2
<1>10. CASE KeeperThrows(k)
  BY <1>0, <1>10, Names, RequestGoesStep DEF KeeperThrows, Fault
<1>11. CASE KeeperDies(k)
  BY <1>0, <1>11, Names, RequestGoesStep DEF KeeperDies, Fault
<1> QED BY <1>1, <1>2, <1>3, <1>4, <1>5, <1>6, <1>7, <1>8, <1>9, <1>10, <1>11 DEF KeeperStep

LEMMA GrantInit_Inv == GrantInit => GrantInv
<1> SUFFICES ASSUME GrantInit PROVE GrantInv
  OBVIOUS
<1>1. /\ \A a \in Authorizations : accounts[a] = NoAccount /\ tokens[a] = NoToken
      /\ \A a \in Authorizations : issued[a] = 0 /\ grant[a] = NoGrant
      /\ \A k \in Keepers : keeper[k] = NoWork
      /\ grantFaults = 0 /\ Nobody \notin Authorizations \cup Keepers
  BY GrantAssumption DEF GrantInit
<1>2. GrantTypeOK
  BY GrantAssumption DEF GrantInit, GrantTypeOK, AccountRows, CallbackStates, KeeperStates,
     NoAccount, NoGrant, NoWork, Owners
<1>3. Attempts /\ TargetsKnown /\ LeasesKnown
  BY <1>1 DEF Attempts, TargetsKnown, LeasesKnown, NoAccount, NoGrant, Trying, Unleased
<1>4. Refreshes /\ Unissued
  BY <1>1 DEF Refreshes, Unissued, NoWork, NoToken, NoGrant
<1>5. /\ TokensOfTheirGrant /\ RemovedKeepsNothing /\ OneRowPerCompany
      /\ ConnectedIsOfCompany /\ NewestTokenIsKept
  BY <1>1 DEF TokensOfTheirGrant, RemovedKeepsNothing, OneRowPerCompany,
     ConnectedIsOfCompany, NewestTokenIsKept, NoAccount
<1>6. Undisturbed
  BY <1>1 DEF Undisturbed, NoAccount, NoGrant, NoWork, Trying
<1> QED BY <1>2, <1>3, <1>4, <1>5, <1>6 DEF GrantInv

LEMMA GrantStep_Inv == GrantInv /\ [GrantNext]_grantVars => GrantInv'
<1> SUFFICES ASSUME GrantInv, [GrantNext]_grantVars PROVE GrantInv'
  OBVIOUS
<1>1. ASSUME NEW r \in Authorizations, LeaseEnds(r) PROVE GrantInv'
  <2>1. GrantTypeOK'
    BY <1>1, LeaseEndsType DEF GrantInv
  <2> QED BY <1>1, <2>1, LeaseEndsStep
<1>2. CASE UNCHANGED grantVars
  BY <1>2 DEF grantVars, GrantInv, GrantTypeOK, TokensOfTheirGrant, RemovedKeepsNothing,
     OneRowPerCompany, Attempts, TargetsKnown, LeasesKnown, Refreshes, Unissued,
     ConnectedIsOfCompany, NewestTokenIsKept, Undisturbed
<1> QED BY <1>1, <1>2, CallbackKeepsInv, KeeperKeepsInv DEF GrantNext

-----------------------------------------------------------------------------
(* The theorems of QuickBooksGrant.                                        *)

LEMMA GrantInvHolds == GrantSpec => []GrantInv
BY GrantInit_Inv, GrantStep_Inv, PTL DEF GrantSpec

\* Whatever is authorized, refreshed and removed at once, whatever fails, stalls
\* or dies: tokens never stand under another authorization's metadata, a removed
\* row keeps no secret, no refresh that was not disturbed strands the newer
\* token, no lease outlives its request, and a company is one row's.
THEOREM GrantsAreSound == GrantSpec => []GrantIsSound
<1>1. GrantInv => NoGrantLeaseLeft
  BY DEF GrantInv, LeasesKnown, NoGrantLeaseLeft
<1>2. GrantInv => GrantIsSound
  BY <1>1 DEF GrantInv, GrantIsSound
<1> QED BY <1>2, GrantInvHolds, PTL

\* A callback that had found a row before its removal does not bring it back.
THEOREM RemovalsAreFinal == GrantSpec => RemovalIsFinal
<1>1. ASSUME GrantInv, GrantInv', [GrantNext]_grantVars
      PROVE  [\A r \in Authorizations : accounts[r].status = "revoked" =>
                 accounts'[r].status \in {"revoked", "absent"}]_grantVars
  <2> SUFFICES ASSUME GrantNext, NEW r \in Authorizations, accounts[r].status = "revoked"
               PROVE  accounts'[r].status \in {"revoked", "absent"}
    BY <1>1
  <2> USE DEF GrantInv
  <2>0. accounts \in [Authorizations -> AccountRows]
    BY <1>1 DEF GrantTypeOK
  <2>1. ASSUME NEW a \in Authorizations, AuthorizeCompany(a)
        PROVE  accounts'[r].status \in {"revoked", "absent"}
    BY <1>1, <2>0, <2>1 DEF AuthorizeCompany, Attempts, NoAccount
  <2>2. ASSUME NEW a \in Authorizations, WriteMetadata(a)
        PROVE  accounts'[r].status \in {"revoked", "absent"}
    <3>1. grant[a].seen # "revoked"
      BY <1>1 DEF GrantTypeOK, CallbackStates
    <3> QED BY <2>0, <2>2, <3>1 DEF WriteMetadata, Unchanged, AccountRows
  <2>3. ASSUME NEW a \in Authorizations, SaveTokens(a) \/ SaveAnswerLost(a)
        PROVE  accounts'[r].status \in {"revoked", "absent"}
    BY <2>0, <2>3 DEF SaveTokens, SaveAnswerLost, MaySave, AccountRows
  <2>4. ASSUME NEW a \in Authorizations, MarkTarget(a) \/ MarkAttempt(a)
        PROVE  accounts'[r].status \in {"revoked", "absent"}
    BY <2>0, <2>4 DEF MarkTarget, MarkAttempt, IsMyAttempt, AccountRows
  <2>5. ASSUME NEW a \in Authorizations, DropDeclined(a) \/ DropAttempt(a)
        PROVE  accounts'[r].status \in {"revoked", "absent"}
    BY <2>0, <2>5 DEF DropDeclined, DropAttempt, DropRow, NoAccount
  <2>6. ASSUME NEW a \in Authorizations,
               LeaseOwnRow(a) \/ LeaseTarget(a) \/ ReleaseTarget(a) \/ ReleaseAttempt(a)
        PROVE  accounts'[r].status \in {"revoked", "absent"}
    BY <2>0, <2>6 DEF LeaseOwnRow, LeaseTarget, ReleaseTarget, ReleaseAttempt, TakeRowLease,
       GiveBack, AccountRows
  <2>7. ASSUME NEW a \in Authorizations, \/ NotAvailable(a) \/ Declines(a) \/ Exchange(a)
               \/ CheckAttempt(a) \/ GrantThrows(a) \/ GrantDies(a)
        PROVE  accounts'[r].status \in {"revoked", "absent"}
    BY <2>7 DEF NotAvailable, Declines, Exchange, CheckAttempt, GrantThrows, GrantDies
  <2>8. ASSUME NEW a \in Authorizations, LeaseEnds(a)
        PROVE  accounts'[r].status \in {"revoked", "absent"}
    BY <2>0, <2>8 DEF LeaseEnds, AccountRows
  <2>9. ASSUME NEW k \in Keepers, RemoveGrant(k)
        PROVE  accounts'[r].status \in {"revoked", "absent"}
    BY <2>0, <2>9 DEF RemoveGrant, AccountRows
  <2>10. ASSUME NEW k \in Keepers, LeaseForKeeper(k) \/ KeeperReleases(k)
         PROVE  accounts'[r].status \in {"revoked", "absent"}
    BY <2>0, <2>10 DEF LeaseForKeeper, KeeperReleases, TakeRowLease, GiveBack, AccountRows
  <2>11. ASSUME NEW k \in Keepers,
                \/ \E s \in Authorizations : StartRefresh(k, s) \/ StartRemoval(k, s)
                \/ Reread(k) \/ Refresh(k) \/ SaveRefreshed(k) \/ ReadForRemoval(k)
                \/ KeeperThrows(k) \/ KeeperDies(k)
         PROVE  accounts'[r].status \in {"revoked", "absent"}
    BY <2>11 DEF StartRefresh, StartRemoval, Reread, Refresh, SaveRefreshed, ReadForRemoval,
       KeeperThrows, KeeperDies
  <2> QED BY <2>1, <2>2, <2>3, <2>4, <2>5, <2>6, <2>7, <2>8, <2>9, <2>10, <2>11
          DEF GrantNext, CallbackStep, KeeperStep
<1> QED BY <1>1, GrantInvHolds, PTL DEF GrantSpec, RemovalIsFinal

-----------------------------------------------------------------------------
(* The inductive invariant of an account's measurements.                   *)

Early == {"idle", "read", "leased"}
Sampling == {"begun", "fetched", "writing", "written", "completed", "published"}
Leasing == Sampling \cup {"leased", "failed", "half", "releasing"}

\* What a sync knows of itself: a sync that has not written is nowhere.
SyncsKnown ==
    \A x \in Syncs :
        /\ syncJob[x].pc # "idle" => syncJob[x].version <= channel.version
        /\ syncJob[x].pc \in Sampling => syncRun[x].mode = syncJob[x].mode
        /\ syncJob[x].pc \in {"fetched", "writing"} => syncJob[x].todo \subseteq
            syncJob[x].from.of
        /\ syncJob[x].pc \in {"written", "completed"} => syncJob[x].begun
        /\ syncJob[x].pc \in Early \cup {"begun", "fetched"} =>
              /\ ~syncJob[x].begun /\ channel.lastSync # x
              /\ \A r \in Resources : measured[r] # x

\* Whoever has the lease has taken it and not given it back.
LeasesHeld ==
    /\ \A x \in Syncs : channel.owner = x => syncJob[x].pc \notin {"idle", "read", "ended"}
    /\ \A e \in Editors : channel.owner = e => editor[e].pc \notin {"idle", "read", "ended"}

ClerksKnown ==
    \A c \in Clerks :
        /\ clerk[c].term <= channel.term
        /\ clerk[c].pc \in {"approving", "reviewed"} => clerk[c].lastSync \in Syncs

(* As long as nothing was evicted, stalled or overtaken:                   *)

\* who works under a lease has it, unless the account was disconnected;
LeasesWhole ==
    /\ channel.live <=> channel.owner # NoSync
    /\ \A x \in Syncs :
          /\ syncJob[x].pc # "dead"
          /\ syncJob[x].pc \in Leasing => channel.owner = x \/ channel.status = "revoked"
    /\ \A e \in Editors :
          /\ editor[e].pc # "dead"
          /\ editor[e].pc \in {"leased", "releasing"} =>
                channel.owner = e \/ channel.status = "revoked"

\* what is disconnected stays so, and no sync under way publishes to it;
RevokedStays ==
    channel.status = "revoked" =>
        /\ channel.promotion # "approved" /\ channel.owner \notin Editors
        /\ \A x \in Syncs : syncJob[x].pc # "idle" => syncJob[x].version # channel.version

\* a sync works in the mode that the promotion asks for;
ModesStand ==
    \A x \in Syncs : channel.status = "connected" =>
        /\ syncJob[x].pc \in Sampling => channel.version = syncJob[x].version
        /\ syncJob[x].pc \in Sampling \cup {"leased"} /\ channel.version = syncJob[x].version =>
              ModeStands(x)

OneSample(x) == \A r \in Resources : measured[r] \in {NoSync, x}

\* a sample that has begun to write is alone;
SamplesAlone ==
    \A x \in Syncs :
        /\ channel.status = "connected" /\ syncJob[x].pc \in {"writing", "written", "completed"}
        /\ syncJob[x].begun /\ syncJob[x].mode = "sample"
        => OneSample(x)

Writes(x) == syncJob[x].begun /\ syncJob[x].pc \in {"writing", "written", "completed",
       "failed", "half"}

\* the last sample is alone until a sync writes, which publishes or reports an
\* error;
LastSampleKept ==
    \A x \in Syncs :
        /\ channel.status = "connected" /\ channel.lastSync = x /\ ~channel.error
        /\ syncRun[x].mode = "sample"
        => OneSample(x) \/ \E y \in Syncs : Writes(y)

\* and what a clerk reviewed stands until somebody takes the lease.
ReviewsStand ==
    \A c \in Clerks :
        /\ clerk[c].pc \in {"approving", "reviewed"}
        /\ channel.term = clerk[c].term /\ channel.status = "connected"
        => /\ channel.owner = NoSync
           /\ clerk[c].pc = "reviewed" =>
                 /\ \A r \in chosen.of : measured[r] # NoSync
                 /\ syncRun[clerk[c].lastSync].mode = "sample"

Calm ==
    /\ LeasesWhole /\ RevokedStays /\ ModesStand /\ SamplesAlone /\ LastSampleKept
    /\ ReviewsStand /\ ApprovedAsReviewed

MeasureInv ==
    /\ MeasureTypeOK /\ MeasuredAsChosen /\ DisconnectedKeepsNothing
    /\ SyncsKnown /\ LeasesHeld /\ ClerksKnown
    /\ lapses = 0 => Calm

-----------------------------------------------------------------------------
(* What a step does to the row, one sync, one edit, one review.            *)

ChannelBecomes(status, promotion, version, lastSync, error, owner, live, term) ==
    /\ channel'.status = status /\ channel'.promotion = promotion
    /\ channel'.version = version /\ channel'.lastSync = lastSync /\ channel'.error = error
    /\ channel'.owner = owner /\ channel'.live = live /\ channel'.term = term

SyncBecomes(x, pc, mode, version, from, todo, begun) ==
    /\ syncJob'[x].pc = pc /\ syncJob'[x].mode = mode /\ syncJob'[x].version = version
    /\ syncJob'[x].from = from /\ syncJob'[x].todo = todo /\ syncJob'[x].begun = begun
    /\ \A z \in Syncs \ {x} : syncJob'[z] = syncJob[z]

ModesKept == \A z \in Syncs : syncRun'[z].mode = syncRun[z].mode

EditorBecomes(e, pc) ==
    editor'[e].pc = pc /\ \A z \in Editors \ {e} : editor'[z] = editor[z]

ClerkBecomes(c, pc, term, version, lastSync) ==
    /\ clerk'[c].pc = pc /\ clerk'[c].term = term /\ clerk'[c].version = version
    /\ clerk'[c].lastSync = lastSync
    /\ \A z \in Clerks \ {c} : clerk'[z] = clerk[z]

LEMMA MeasureNames ==
  ASSUME MeasureTypeOK, MeasureTypeOK'
  PROVE  /\ Syncs \cap Editors = {} /\ NoSync \notin Syncs \cup Editors
         /\ channel.version \in Nat /\ channel.term \in Nat /\ lapses \in Nat
         /\ channel'.version \in Nat /\ channel'.term \in Nat
         /\ channel.owner \in Syncs \cup Editors \cup {NoSync}
         /\ channel.status \in {"connected", "revoked"}
         /\ \A x \in Syncs : syncJob[x].version \in Nat
         /\ \A c \in Clerks : clerk[c].term \in Nat
         /\ measured \in [Resources -> Syncs \cup {NoSync}]
         /\ channel.lastSync \in Syncs \cup {NoSync} /\ reviewed \in Syncs \cup {NoSync}
         /\ channel.live \in BOOLEAN /\ channel.error \in BOOLEAN
         /\ \A x \in Syncs : syncJob[x].begun \in BOOLEAN
         /\ chosen.of \subseteq Resources
BY MeasureAssumption
DEF MeasureTypeOK, Edition, Leaseholders, Maybe, ChannelRows, SyncRuns, SyncLocals,
    EditorLocals, ClerkLocals, Selections

\* A sync reads the account.
LEMMA SyncReadsStep ==
  ASSUME MeasureInv, MeasureTypeOK', NEW x \in Syncs, ReadChannel(x)
  PROVE  MeasureInv'
<1> USE MeasureNames
    DEF MeasureInv, ChannelBecomes, SyncBecomes, EditorBecomes, ClerkBecomes, ModesKept
<1>1. /\ syncJob[x].pc = "idle" /\ channel.status = "connected"
      /\ SyncBecomes(x, "read", syncJob'[x].mode, channel.version, syncJob[x].from,
                     syncJob[x].todo, syncJob[x].begun)
  BY DEF MeasureTypeOK, ChannelRows, SyncLocals, SyncRuns, EditorLocals, ClerkLocals,
     ReadChannel
<1>2. UNCHANGED << channel, chosen, measured, syncRun, editor, clerk, reviewed, lapses >>
  BY DEF ReadChannel
<1>3. MeasuredAsChosen' BY <1>1, <1>2 DEF MeasuredAsChosen, SyncsKnown, Early
<1>4. DisconnectedKeepsNothing' BY <1>1, <1>2 DEF DisconnectedKeepsNothing,
         SyncsKnown, MeasuredAsChosen
<1>5. SyncsKnown' BY <1>1, <1>2 DEF SyncsKnown, Early, Sampling
<1>6. LeasesHeld' BY <1>1, <1>2 DEF LeasesHeld
<1>7. ClerksKnown' BY <1>1, <1>2 DEF ClerksKnown
<1>8. ASSUME lapses' = 0 PROVE Calm'
  <2>0. lapses = 0 /\ Calm
    BY <1>1, <1>2, <1>8
  <2>1. LeasesWhole' BY <1>1, <1>2, <1>8, <2>0 DEF Calm, LeasesWhole, Leasing,
           Sampling
  <2>2. RevokedStays' BY <1>1, <1>2, <1>8, <2>0 DEF Calm, RevokedStays, LeasesWhole,
           SyncsKnown
  <2>3. ModesStand' BY <1>1, <1>2, <1>8, <2>0 DEF Calm, ModesStand, ModeStands,
           LeasesWhole, Leasing, Sampling, RevokedStays
  <2>4. SamplesAlone' BY <1>1, <1>2, <1>8, <2>0 DEF Calm, SamplesAlone, OneSample,
           SyncsKnown, LeasesWhole, Leasing, Sampling, ModesStand, Early
  <2>5. LastSampleKept' BY <1>1, <1>2, <1>8, <2>0 DEF Calm, LastSampleKept, OneSample,
           Writes, SyncsKnown, LeasesWhole, Leasing, Sampling, ModesStand,
           SamplesAlone, Early, RevokedStays
  <2>6. ReviewsStand' BY <1>1, <1>2, <1>8, <2>0 DEF Calm, ReviewsStand, ClerksKnown,
           LeasesWhole, Leasing, Sampling, SyncsKnown, Early, RevokedStays
  <2>7. ApprovedAsReviewed' BY <1>1, <1>2, <1>8, <2>0 DEF Calm, ApprovedAsReviewed,
           SyncsKnown, Early, LeasesWhole, ModesStand, ModeStands, Leasing, Sampling,
           RevokedStays, LastSampleKept, OneSample, Writes, ReviewsStand, ClerksKnown
  <2> QED BY <2>1, <2>2, <2>3, <2>4, <2>5, <2>6, <2>7 DEF Calm
<1> QED BY <1>3, <1>4, <1>5, <1>6, <1>7, <1>8

\* A sync takes the lease.
LEMMA SyncLeasesStep ==
  ASSUME MeasureInv, MeasureTypeOK', NEW x \in Syncs, syncJob[x].pc = "read", Leasable,
         channel' = Leased(x), SyncGoes(x, "leased"),
         IF channel.version = syncJob[x].version /\ ~ModeStands(x) THEN Lapse ELSE UNCHANGED
             lapses,
         UNCHANGED << chosen, measured, syncRun, editor, clerk, reviewed >>
  PROVE  MeasureInv'
<1> USE MeasureNames
    DEF MeasureInv, ChannelBecomes, SyncBecomes, EditorBecomes, ClerkBecomes, ModesKept
<1>0. /\ syncJob[x].pc = "read" /\ Leasable
      /\ channel' = [channel EXCEPT !.owner = x, !.live = TRUE, !.term = @ + 1]
      /\ syncJob' = [syncJob EXCEPT ![x].pc = "leased"]
      /\ \/ lapses' = lapses + 1
         \/ lapses' = lapses /\ (channel.version = syncJob[x].version => ModeStands(x))
  BY DEF Leased, Lapse, SyncGoes
<1>1. /\ syncJob[x].pc = "read" /\ Leasable
      /\ ChannelBecomes(channel.status, channel.promotion, channel.version,
                        channel.lastSync, channel.error, x, TRUE, channel.term + 1)
      /\ SyncBecomes(x, "leased", syncJob[x].mode, syncJob[x].version, syncJob[x].from,
                     syncJob[x].todo, syncJob[x].begun)
      /\ \/ lapses' = lapses + 1
         \/ lapses' = lapses /\ (channel.version = syncJob[x].version => ModeStands(x))
  BY <1>0 DEF MeasureTypeOK, ChannelRows, SyncLocals, SyncRuns, EditorLocals,
     ClerkLocals
<1>2. UNCHANGED << chosen, measured, syncRun, editor, clerk, reviewed >>
  BY DEF Leased, Lapse, SyncGoes
<1>3. MeasuredAsChosen' BY <1>1, <1>2 DEF MeasuredAsChosen, SyncsKnown, Early
<1>4. DisconnectedKeepsNothing' BY <1>1, <1>2 DEF DisconnectedKeepsNothing,
         SyncsKnown, MeasuredAsChosen
<1>5. SyncsKnown' BY <1>1, <1>2 DEF SyncsKnown, Early, Sampling
<1>6. LeasesHeld' BY <1>1, <1>2 DEF LeasesHeld
<1>7. ClerksKnown' BY <1>1, <1>2 DEF ClerksKnown
<1>8. ASSUME lapses' = 0 PROVE Calm'
  <2>0. lapses = 0 /\ Calm
    BY <1>1, <1>2, <1>8
  <2>1. LeasesWhole' BY <1>1, <1>2, <1>8, <2>0 DEF Calm, LeasesWhole, Leasing,
           Sampling, Leasable
  <2>2. RevokedStays' BY <1>1, <1>2, <1>8, <2>0 DEF Calm, RevokedStays, LeasesWhole,
           SyncsKnown, Leasable
  <2>3. ModesStand' BY <1>1, <1>2, <1>8, <2>0 DEF Calm, ModesStand, ModeStands,
           LeasesWhole, Leasing, Sampling, RevokedStays, Leasable
  <2>4. SamplesAlone' BY <1>1, <1>2, <1>8, <2>0 DEF Calm, SamplesAlone, OneSample,
           SyncsKnown, LeasesWhole, Leasing, Sampling, ModesStand, Early, Leasable
  <2>5. LastSampleKept' BY <1>1, <1>2, <1>8, <2>0 DEF Calm, LastSampleKept, OneSample,
           Writes, SyncsKnown, LeasesWhole, Leasing, Sampling, ModesStand,
           SamplesAlone, Early, RevokedStays, Leasable
  <2>6. ReviewsStand' BY <1>1, <1>2, <1>8, <2>0 DEF Calm, ReviewsStand, ClerksKnown,
           LeasesWhole, Leasing, Sampling, SyncsKnown, Early, RevokedStays, Leasable
  <2>7. ApprovedAsReviewed' BY <1>1, <1>2, <1>8, <2>0 DEF Calm, ApprovedAsReviewed,
           SyncsKnown, Early, LeasesWhole, ModesStand, ModeStands, Leasing, Sampling,
           RevokedStays, LastSampleKept, OneSample, Writes, ReviewsStand, ClerksKnown,
           Leasable
  <2> QED BY <2>1, <2>2, <2>3, <2>4, <2>5, <2>6, <2>7 DEF Calm
<1> QED BY <1>3, <1>4, <1>5, <1>6, <1>7, <1>8

\* Its run begins.
LEMMA RunBeginsStep ==
  ASSUME MeasureInv, MeasureTypeOK', NEW x \in Syncs, BeginRun(x), syncJob'[x].pc = "begun"
  PROVE  MeasureInv'
<1> USE MeasureNames
    DEF MeasureInv, ChannelBecomes, SyncBecomes, EditorBecomes, ClerkBecomes, ModesKept
<1>1. /\ syncJob[x].pc = "leased"
      /\ channel.owner = x /\ channel.version = syncJob[x].version
      /\ syncRun'[x].mode = syncJob[x].mode
      /\ \A z \in Syncs \ {x} : syncRun'[z] = syncRun[z]
      /\ SyncBecomes(x, "begun", syncJob[x].mode, syncJob[x].version, chosen,
                     syncJob[x].todo, syncJob[x].begun)
  BY DEF MeasureTypeOK, ChannelRows, SyncLocals, SyncRuns, EditorLocals, ClerkLocals,
     BeginRun, SyncGoes
<1>2. UNCHANGED << channel, chosen, measured, editor, clerk, reviewed, lapses >>
  BY DEF BeginRun, SyncGoes
<1>3. MeasuredAsChosen' BY <1>1, <1>2 DEF MeasuredAsChosen, SyncsKnown, Early
<1>4. DisconnectedKeepsNothing' BY <1>1, <1>2 DEF DisconnectedKeepsNothing,
         SyncsKnown, MeasuredAsChosen
<1>5. SyncsKnown' BY <1>1, <1>2 DEF SyncsKnown, Early, Sampling
<1>6. LeasesHeld' BY <1>1, <1>2 DEF LeasesHeld
<1>7. ClerksKnown' BY <1>1, <1>2 DEF ClerksKnown
<1>8. ASSUME lapses' = 0 PROVE Calm'
  <2>0. lapses = 0 /\ Calm
    BY <1>1, <1>2, <1>8
  <2>1. LeasesWhole' BY <1>1, <1>2, <1>8, <2>0 DEF Calm, LeasesWhole, Leasing,
           Sampling
  <2>2. RevokedStays' BY <1>1, <1>2, <1>8, <2>0 DEF Calm, RevokedStays, LeasesWhole,
           SyncsKnown
  <2>3. ModesStand' BY <1>1, <1>2, <1>8, <2>0 DEF Calm, ModesStand, ModeStands,
           LeasesWhole, Leasing, Sampling, RevokedStays
  <2>4. SamplesAlone' BY <1>1, <1>2, <1>8, <2>0 DEF Calm, SamplesAlone, OneSample,
           SyncsKnown, LeasesWhole, Leasing, Sampling, ModesStand, Early
  <2>5. LastSampleKept' BY <1>1, <1>2, <1>8, <2>0 DEF Calm, LastSampleKept, OneSample,
           Writes, SyncsKnown, LeasesWhole, Leasing, Sampling, ModesStand,
           SamplesAlone, Early, RevokedStays
  <2>6. ReviewsStand' BY <1>1, <1>2, <1>8, <2>0 DEF Calm, ReviewsStand, ClerksKnown,
           LeasesWhole, Leasing, Sampling, SyncsKnown, Early, RevokedStays
  <2>7. ApprovedAsReviewed' BY <1>1, <1>2, <1>8, <2>0 DEF Calm, ApprovedAsReviewed,
           SyncsKnown, Early, LeasesWhole, ModesStand, ModeStands, Leasing, Sampling,
           RevokedStays, LastSampleKept, OneSample, Writes, ReviewsStand, ClerksKnown
  <2> QED BY <2>1, <2>2, <2>3, <2>4, <2>5, <2>6, <2>7 DEF Calm
<1> QED BY <1>3, <1>4, <1>5, <1>6, <1>7, <1>8

\* The provider answers.
LEMMA FetchesStep ==
  ASSUME MeasureInv, MeasureTypeOK', NEW x \in Syncs, FetchMeasurements(x), syncJob'[x].pc =
         "fetched"
  PROVE  MeasureInv'
<1> USE MeasureNames
    DEF MeasureInv, ChannelBecomes, SyncBecomes, EditorBecomes, ClerkBecomes, ModesKept
<1>1. /\ syncJob[x].pc = "begun" /\ ModesKept
      /\ syncJob'[x].todo \subseteq syncJob[x].from.of
      /\ SyncBecomes(x, "fetched", syncJob[x].mode, syncJob[x].version, syncJob[x].from,
                     syncJob'[x].todo, syncJob[x].begun)
  BY DEF MeasureTypeOK, ChannelRows, SyncLocals, SyncRuns, EditorLocals, ClerkLocals,
     FetchMeasurements, SyncGoes
<1>2. UNCHANGED << channel, chosen, measured, editor, clerk, reviewed, lapses >>
  BY DEF FetchMeasurements, SyncGoes
<1>3. MeasuredAsChosen' BY <1>1, <1>2 DEF MeasuredAsChosen, SyncsKnown, Early
<1>4. DisconnectedKeepsNothing' BY <1>1, <1>2 DEF DisconnectedKeepsNothing,
         SyncsKnown, MeasuredAsChosen
<1>5. SyncsKnown' BY <1>1, <1>2 DEF SyncsKnown, Early, Sampling
<1>6. LeasesHeld' BY <1>1, <1>2 DEF LeasesHeld
<1>7. ClerksKnown' BY <1>1, <1>2 DEF ClerksKnown
<1>8. ASSUME lapses' = 0 PROVE Calm'
  <2>0. lapses = 0 /\ Calm
    BY <1>1, <1>2, <1>8
  <2>1. LeasesWhole' BY <1>1, <1>2, <1>8, <2>0 DEF Calm, LeasesWhole, Leasing,
           Sampling
  <2>2. RevokedStays' BY <1>1, <1>2, <1>8, <2>0 DEF Calm, RevokedStays, LeasesWhole,
           SyncsKnown
  <2>3. ModesStand' BY <1>1, <1>2, <1>8, <2>0 DEF Calm, ModesStand, ModeStands,
           LeasesWhole, Leasing, Sampling, RevokedStays
  <2>4. SamplesAlone' BY <1>1, <1>2, <1>8, <2>0 DEF Calm, SamplesAlone, OneSample,
           SyncsKnown, LeasesWhole, Leasing, Sampling, ModesStand, Early
  <2>5. LastSampleKept' BY <1>1, <1>2, <1>8, <2>0 DEF Calm, LastSampleKept, OneSample,
           Writes, SyncsKnown, LeasesWhole, Leasing, Sampling, ModesStand,
           SamplesAlone, Early, RevokedStays
  <2>6. ReviewsStand' BY <1>1, <1>2, <1>8, <2>0 DEF Calm, ReviewsStand, ClerksKnown,
           LeasesWhole, Leasing, Sampling, SyncsKnown, Early, RevokedStays
  <2>7. ApprovedAsReviewed' BY <1>1, <1>2, <1>8, <2>0 DEF Calm, ApprovedAsReviewed,
           SyncsKnown, Early, LeasesWhole, ModesStand, ModeStands, Leasing, Sampling,
           RevokedStays, LastSampleKept, OneSample, Writes, ReviewsStand, ClerksKnown
  <2> QED BY <2>1, <2>2, <2>3, <2>4, <2>5, <2>6, <2>7 DEF Calm
<1> QED BY <1>3, <1>4, <1>5, <1>6, <1>7, <1>8

\* A batch is written, if the selection is the one read.
LEMMA PersistsStep ==
  ASSUME MeasureInv, MeasureTypeOK', NEW x \in Syncs, PersistBatch(x)
  PROVE  MeasureInv'
<1> USE MeasureNames
    DEF MeasureInv, ChannelBecomes, SyncBecomes, EditorBecomes, ClerkBecomes, ModesKept
<1>1. /\ syncJob[x].pc = "writing"
      /\ syncJob'[x].pc \in {"writing", "written"}
      /\ syncJob'[x].todo \subseteq syncJob[x].todo
      /\ SyncBecomes(x, syncJob'[x].pc, syncJob[x].mode, syncJob[x].version,
                     syncJob[x].from, syncJob'[x].todo, TRUE)
      /\ \A r \in Resources :
            \/ measured'[r] = x /\ r \in syncJob[x].todo /\ chosen = syncJob[x].from
            \/ measured'[r] = NoSync /\ syncJob[x].mode = "sample" /\ ~syncJob[x].begun
            \/ measured'[r] = measured[r] /\ (syncJob[x].mode = "sample" => syncJob[x].begun)
  BY DEF MeasureTypeOK, ChannelRows, SyncLocals, SyncRuns, EditorLocals, ClerkLocals,
     PersistBatch, Emptied
<1>2. UNCHANGED << channel, chosen, syncRun, editor, clerk, reviewed, lapses >>
  BY DEF PersistBatch, Emptied
<1>3. MeasuredAsChosen' BY <1>1, <1>2 DEF MeasuredAsChosen, SyncsKnown, Early
<1>4. DisconnectedKeepsNothing' BY <1>1, <1>2 DEF DisconnectedKeepsNothing,
         SyncsKnown, MeasuredAsChosen
<1>5. SyncsKnown' BY <1>1, <1>2 DEF SyncsKnown, Early, Sampling
<1>6. LeasesHeld' BY <1>1, <1>2 DEF LeasesHeld
<1>7. ClerksKnown' BY <1>1, <1>2 DEF ClerksKnown
<1>8. ASSUME lapses' = 0 PROVE Calm'
  <2>0. lapses = 0 /\ Calm
    BY <1>1, <1>2, <1>8
  <2>1. LeasesWhole' BY <1>1, <1>2, <1>8, <2>0 DEF Calm, LeasesWhole, Leasing,
           Sampling
  <2>2. RevokedStays' BY <1>1, <1>2, <1>8, <2>0 DEF Calm, RevokedStays, LeasesWhole,
           SyncsKnown
  <2>3. ModesStand' BY <1>1, <1>2, <1>8, <2>0 DEF Calm, ModesStand, ModeStands,
           LeasesWhole, Leasing, Sampling, RevokedStays
  <2>4. SamplesAlone' BY <1>1, <1>2, <1>8, <2>0 DEF Calm, SamplesAlone, OneSample,
           SyncsKnown, LeasesWhole, Leasing, Sampling, ModesStand, Early
  <2>5. LastSampleKept' BY <1>1, <1>2, <1>8, <2>0 DEF Calm, LastSampleKept, OneSample,
           Writes, SyncsKnown, LeasesWhole, Leasing, Sampling, ModesStand,
           SamplesAlone, Early, RevokedStays
  <2>6. ReviewsStand' BY <1>1, <1>2, <1>8, <2>0 DEF Calm, ReviewsStand, ClerksKnown,
           LeasesWhole, Leasing, Sampling, SyncsKnown, Early, RevokedStays
  <2>7. ApprovedAsReviewed'
    <3>1. SUFFICES ASSUME channel.promotion = "approved"
                   PROVE  /\ reviewed # NoSync
                          /\ \A r \in Resources : measured[r] # measured'[r] =>
                                measured'[r] = x /\ syncRun[x].mode = "incremental"
      BY <1>2, <2>0, <1>8 DEF Calm, ApprovedAsReviewed
    <3>2. /\ syncJob[x].mode = "incremental" /\ syncRun[x].mode = "incremental"
      BY <1>1, <2>0, <3>1 DEF Calm, LeasesWhole, RevokedStays, ModesStand, ModeStands,
          Leasing, Sampling,
         SyncsKnown, MeasureTypeOK, SyncLocals
    <3> QED BY <1>1, <2>0, <3>1, <3>2 DEF Calm, ApprovedAsReviewed
  <2> QED BY <2>1, <2>2, <2>3, <2>4, <2>5, <2>6, <2>7 DEF Calm
<1> QED BY <1>3, <1>4, <1>5, <1>6, <1>7, <1>8

\* The sync is published.
LEMMA PublishesStep ==
  ASSUME MeasureInv, MeasureTypeOK', NEW x \in Syncs, PublishRun(x), MayPublishRun(x)
  PROVE  MeasureInv'
<1> USE MeasureNames
    DEF MeasureInv, ChannelBecomes, SyncBecomes, EditorBecomes, ClerkBecomes, ModesKept
<1>0. /\ syncJob[x].pc = "completed" /\ channel.owner = x /\ channel.version = syncJob[x].version
      /\ channel' = [channel EXCEPT !.status = "connected", !.lastSync = x,
                !.promotion = IF syncJob[x].mode = "sample" THEN "staging" ELSE "approved",
                !.error = syncRun[x].warned]
      /\ syncJob' = [syncJob EXCEPT ![x].pc = "published"]
  BY DEF PublishRun, MayPublishRun, SyncGoes
<1>1. /\ syncJob[x].pc = "completed" /\ channel.owner = x /\ channel.version = syncJob[x].version
      /\ ChannelBecomes("connected", channel'.promotion, channel.version, x, channel'.error,
                        channel.owner, channel.live, channel.term)
      /\ channel'.promotion = IF syncJob[x].mode = "sample" THEN "staging" ELSE "approved"
      /\ SyncBecomes(x, "published", syncJob[x].mode, syncJob[x].version, syncJob[x].from,
                     syncJob[x].todo, syncJob[x].begun)
  BY <1>0 DEF MeasureTypeOK, ChannelRows, SyncLocals, SyncRuns, EditorLocals,
     ClerkLocals
<1>2. UNCHANGED << chosen, measured, syncRun, editor, clerk, reviewed, lapses >>
  BY DEF PublishRun, MayPublishRun, SyncGoes
<1>3. MeasuredAsChosen' BY <1>1, <1>2 DEF MeasuredAsChosen, SyncsKnown, Early
<1>4. DisconnectedKeepsNothing' BY <1>1, <1>2 DEF DisconnectedKeepsNothing,
         SyncsKnown, MeasuredAsChosen
<1>5. SyncsKnown' BY <1>1, <1>2 DEF SyncsKnown, Early, Sampling
<1>6. LeasesHeld' BY <1>1, <1>2 DEF LeasesHeld
<1>7. ClerksKnown' BY <1>1, <1>2 DEF ClerksKnown
<1>8. ASSUME lapses' = 0 PROVE Calm'
  <2>0. lapses = 0 /\ Calm
    BY <1>1, <1>2, <1>8
  <2>1. LeasesWhole' BY <1>1, <1>2, <1>8, <2>0 DEF Calm, LeasesWhole, Leasing,
           Sampling, RevokedStays
  <2>2. RevokedStays' BY <1>1, <1>2, <1>8, <2>0 DEF Calm, RevokedStays, LeasesWhole,
           SyncsKnown
  <2>3. ModesStand' BY <1>1, <1>2, <1>8, <2>0 DEF Calm, ModesStand, ModeStands,
           LeasesWhole, Leasing, Sampling, RevokedStays
  <2>4. SamplesAlone' BY <1>1, <1>2, <1>8, <2>0 DEF Calm, SamplesAlone, OneSample,
           SyncsKnown, LeasesWhole, Leasing, Sampling, ModesStand, Early, RevokedStays
  <2>5. LastSampleKept' BY <1>1, <1>2, <1>8, <2>0 DEF Calm, LastSampleKept, OneSample,
           Writes, SyncsKnown, LeasesWhole, Leasing, Sampling, ModesStand,
           SamplesAlone, Early, RevokedStays
  <2>6. ReviewsStand' BY <1>1, <1>2, <1>8, <2>0 DEF Calm, ReviewsStand, ClerksKnown,
           LeasesWhole, Leasing, Sampling, SyncsKnown, Early, RevokedStays
  <2>7. ApprovedAsReviewed' BY <1>1, <1>2, <1>8, <2>0 DEF Calm, ApprovedAsReviewed,
           SyncsKnown, Early, LeasesWhole, ModesStand, ModeStands, Leasing, Sampling,
           RevokedStays, LastSampleKept, OneSample, Writes, ReviewsStand, ClerksKnown
  <2> QED BY <2>1, <2>2, <2>3, <2>4, <2>5, <2>6, <2>7 DEF Calm
<1> QED BY <1>3, <1>4, <1>5, <1>6, <1>7, <1>8

\* A failure is noted in the row.
LEMMA NotesFailureStep ==
  ASSUME MeasureInv, MeasureTypeOK', NEW x \in Syncs, MarkFailure(x)
  PROVE  MeasureInv'
<1> USE MeasureNames
    DEF MeasureInv, ChannelBecomes, SyncBecomes, EditorBecomes, ClerkBecomes, ModesKept
<1>0. /\ syncJob[x].pc = "half"
      /\ channel' = IF channel.owner = x THEN [channel EXCEPT !.error = TRUE] ELSE channel
      /\ syncJob' = [syncJob EXCEPT ![x].pc = "releasing"]
  BY DEF MarkFailure, SyncGoes
<1>1. /\ syncJob[x].pc = "half"
      /\ channel.owner = x => channel'.error = TRUE
      /\ channel.owner # x => channel'.error = channel.error
      /\ ChannelBecomes(channel.status, channel.promotion, channel.version,
                        channel.lastSync, channel'.error, channel.owner, channel.live, channel.term)
      /\ SyncBecomes(x, "releasing", syncJob[x].mode, syncJob[x].version, syncJob[x].from,
                     syncJob[x].todo, syncJob[x].begun)
  <2>1. channel \in ChannelRows /\ x \in Syncs /\ syncJob \in [Syncs -> SyncLocals]
    BY DEF MeasureTypeOK
  <2>2. CASE channel.owner = x
    <3>1. channel' = [channel EXCEPT !.error = TRUE] BY <1>0, <2>2
    <3> QED BY <1>0, <2>1, <2>2, <3>1 DEF ChannelRows, SyncLocals
  <2>3. CASE channel.owner # x BY <1>0, <2>1, <2>3 DEF ChannelRows, SyncLocals
  <2> QED BY <2>2, <2>3
<1>2. UNCHANGED << chosen, measured, syncRun, editor, clerk, reviewed, lapses >>
  BY DEF MarkFailure, SyncGoes
<1>3. MeasuredAsChosen' BY <1>1, <1>2 DEF MeasuredAsChosen, SyncsKnown, Early
<1>4. DisconnectedKeepsNothing' BY <1>1, <1>2 DEF DisconnectedKeepsNothing,
         SyncsKnown, MeasuredAsChosen
<1>5. SyncsKnown' BY <1>1, <1>2 DEF SyncsKnown, Early, Sampling
<1>6. LeasesHeld' BY <1>1, <1>2 DEF LeasesHeld
<1>7. ClerksKnown' BY <1>1, <1>2 DEF ClerksKnown
<1>8. ASSUME lapses' = 0 PROVE Calm'
  <2>0. lapses = 0 /\ Calm
    BY <1>1, <1>2, <1>8
  <2>1. LeasesWhole' BY <1>1, <1>2, <1>8, <2>0 DEF Calm, LeasesWhole, Leasing,
           Sampling
  <2>2. RevokedStays' BY <1>1, <1>2, <1>8, <2>0 DEF Calm, RevokedStays, LeasesWhole,
           SyncsKnown
  <2>3. ModesStand' BY <1>1, <1>2, <1>8, <2>0 DEF Calm, ModesStand, ModeStands,
           LeasesWhole, Leasing, Sampling, RevokedStays
  <2>4. SamplesAlone' BY <1>1, <1>2, <1>8, <2>0 DEF Calm, SamplesAlone, OneSample,
           SyncsKnown, LeasesWhole, Leasing, Sampling, ModesStand, Early
  <2>5. LastSampleKept' BY <1>1, <1>2, <1>8, <2>0 DEF Calm, LastSampleKept, OneSample,
           Writes, SyncsKnown, LeasesWhole, Leasing, Sampling, ModesStand,
           SamplesAlone, Early, RevokedStays
  <2>6. ReviewsStand' BY <1>1, <1>2, <1>8, <2>0 DEF Calm, ReviewsStand, ClerksKnown,
           LeasesWhole, Leasing, Sampling, SyncsKnown, Early, RevokedStays
  <2>7. ApprovedAsReviewed' BY <1>1, <1>2, <1>8, <2>0 DEF Calm, ApprovedAsReviewed,
           SyncsKnown, Early, LeasesWhole, ModesStand, ModeStands, Leasing, Sampling,
           RevokedStays, LastSampleKept, OneSample, Writes, ReviewsStand, ClerksKnown
  <2> QED BY <2>1, <2>2, <2>3, <2>4, <2>5, <2>6, <2>7 DEF Calm
<1> QED BY <1>3, <1>4, <1>5, <1>6, <1>7, <1>8

\* A sync gives back its lease.
LEMMA SyncReleasesStep ==
  ASSUME MeasureInv, MeasureTypeOK', NEW x \in Syncs, ReleaseSync(x), channel.owner = x
  PROVE  MeasureInv'
<1> USE MeasureNames
    DEF MeasureInv, ChannelBecomes, SyncBecomes, EditorBecomes, ClerkBecomes, ModesKept
<1>1. /\ syncJob[x].pc \in {"published", "releasing"}
      /\ ChannelBecomes(channel.status, channel.promotion, channel.version,
                        channel.lastSync, channel.error, NoSync, FALSE, channel.term)
      /\ SyncBecomes(x, "ended", syncJob[x].mode, syncJob[x].version, syncJob[x].from,
                     syncJob[x].todo, syncJob[x].begun)
  BY DEF MeasureTypeOK, ChannelRows, SyncLocals, SyncRuns, EditorLocals, ClerkLocals,
     ReleaseSync, Unlease, SyncGoes
<1>2. UNCHANGED << chosen, measured, syncRun, editor, clerk, reviewed, lapses >>
  BY DEF ReleaseSync, Unlease, SyncGoes
<1>3. MeasuredAsChosen' BY <1>1, <1>2 DEF MeasuredAsChosen, SyncsKnown, Early
<1>4. DisconnectedKeepsNothing' BY <1>1, <1>2 DEF DisconnectedKeepsNothing,
         SyncsKnown, MeasuredAsChosen
<1>5. SyncsKnown' BY <1>1, <1>2 DEF SyncsKnown, Early, Sampling
<1>6. LeasesHeld' BY <1>1, <1>2 DEF LeasesHeld
<1>7. ClerksKnown' BY <1>1, <1>2 DEF ClerksKnown
<1>8. ASSUME lapses' = 0 PROVE Calm'
  <2>0. lapses = 0 /\ Calm
    BY <1>1, <1>2, <1>8
  <2>1. LeasesWhole' BY <1>1, <1>2, <1>8, <2>0 DEF Calm, LeasesWhole, Leasing,
           Sampling
  <2>2. RevokedStays' BY <1>1, <1>2, <1>8, <2>0 DEF Calm, RevokedStays, LeasesWhole,
           SyncsKnown
  <2>3. ModesStand' BY <1>1, <1>2, <1>8, <2>0 DEF Calm, ModesStand, ModeStands,
           LeasesWhole, Leasing, Sampling, RevokedStays
  <2>4. SamplesAlone' BY <1>1, <1>2, <1>8, <2>0 DEF Calm, SamplesAlone, OneSample,
           SyncsKnown, LeasesWhole, Leasing, Sampling, ModesStand, Early
  <2>5. LastSampleKept' BY <1>1, <1>2, <1>8, <2>0 DEF Calm, LastSampleKept, OneSample,
           Writes, SyncsKnown, LeasesWhole, Leasing, Sampling, ModesStand,
           SamplesAlone, Early, RevokedStays
  <2>6. ReviewsStand' BY <1>1, <1>2, <1>8, <2>0 DEF Calm, ReviewsStand, ClerksKnown,
           LeasesWhole, Leasing, Sampling, SyncsKnown, Early, RevokedStays
  <2>7. ApprovedAsReviewed' BY <1>1, <1>2, <1>8, <2>0 DEF Calm, ApprovedAsReviewed,
           SyncsKnown, Early, LeasesWhole, ModesStand, ModeStands, Leasing, Sampling,
           RevokedStays, LastSampleKept, OneSample, Writes, ReviewsStand, ClerksKnown
  <2> QED BY <2>1, <2>2, <2>3, <2>4, <2>5, <2>6, <2>7 DEF Calm
<1> QED BY <1>3, <1>4, <1>5, <1>6, <1>7, <1>8

\* A sync that goes on, fails, ends or is evicted, and changes nothing else but its run.
LEMMA SyncGoesStep ==
  ASSUME MeasureInv, MeasureTypeOK', NEW x \in Syncs, NEW pc, SyncGoes(x, pc), ModesKept,
         UNCHANGED << channel, chosen, measured, editor, clerk, reviewed >>,
         \/ pc = "failed" /\ syncJob[x].pc \in Sampling \cup {"leased"}
         \/ pc = "ended" /\ syncJob[x].pc = "read"
         \/ pc = "ended" /\ syncJob[x].pc \in {"published", "releasing"} /\ channel.owner # x
         \/ pc = "writing" /\ syncJob[x].pc = "fetched"
         \/ pc = "completed" /\ syncJob[x].pc = "written"
         \/ pc = "half" /\ syncJob[x].pc = "failed"
         \/ pc \in {"dead", "releasing"} /\ syncJob[x].pc \notin {"idle", "read"} /\ lapses'
             = lapses + 1,
         lapses' = lapses \/ lapses' = lapses + 1
  PROVE  MeasureInv'
<1> USE MeasureNames
    DEF MeasureInv, ChannelBecomes, SyncBecomes, EditorBecomes, ClerkBecomes, ModesKept
<1>1. /\ SyncBecomes(x, pc, syncJob[x].mode, syncJob[x].version, syncJob[x].from,
                     syncJob[x].todo, syncJob[x].begun)
      /\ ModesKept
  BY DEF MeasureTypeOK, ChannelRows, SyncLocals, SyncRuns, EditorLocals, ClerkLocals,
     SyncGoes
<1>2. UNCHANGED << channel, chosen, measured, editor, clerk, reviewed >>
  BY DEF SyncGoes
<1>3. MeasuredAsChosen' BY <1>1, <1>2 DEF MeasuredAsChosen, SyncsKnown, Early
<1>4. DisconnectedKeepsNothing' BY <1>1, <1>2 DEF DisconnectedKeepsNothing,
         SyncsKnown, MeasuredAsChosen
<1>5. SyncsKnown' BY <1>1, <1>2 DEF SyncsKnown, Early, Sampling, Early
<1>6. LeasesHeld' BY <1>1, <1>2 DEF LeasesHeld
<1>7. ClerksKnown' BY <1>1, <1>2 DEF ClerksKnown
<1>8. ASSUME lapses' = 0 PROVE Calm'
  <2>0. lapses = 0 /\ Calm
    BY <1>1, <1>2, <1>8
  <2>1. LeasesWhole' BY <1>1, <1>2, <1>8, <2>0 DEF Calm, LeasesWhole, Leasing,
           Sampling
  <2>2. RevokedStays' BY <1>1, <1>2, <1>8, <2>0 DEF Calm, RevokedStays, LeasesWhole,
           SyncsKnown, Early, Sampling
  <2>3. ModesStand' BY <1>1, <1>2, <1>8, <2>0 DEF Calm, ModesStand, ModeStands,
           LeasesWhole, Leasing, Sampling, RevokedStays
  <2>4. SamplesAlone' BY <1>1, <1>2, <1>8, <2>0 DEF Calm, SamplesAlone, OneSample,
           SyncsKnown, LeasesWhole, Leasing, Sampling, ModesStand, Early
  <2>5. LastSampleKept' BY <1>1, <1>2, <1>8, <2>0 DEF Calm, LastSampleKept, OneSample,
           Writes, SyncsKnown, LeasesWhole, Leasing, Sampling, ModesStand,
           SamplesAlone, Early, RevokedStays
  <2>6. ReviewsStand' BY <1>1, <1>2, <1>8, <2>0 DEF Calm, ReviewsStand, ClerksKnown,
           LeasesWhole, Leasing, Sampling, SyncsKnown, Early, RevokedStays
  <2>7. ApprovedAsReviewed' BY <1>1, <1>2, <1>8, <2>0 DEF Calm, ApprovedAsReviewed,
           SyncsKnown, Early, LeasesWhole, ModesStand, ModeStands, Leasing, Sampling,
           RevokedStays, LastSampleKept, OneSample, Writes, ReviewsStand, ClerksKnown
  <2> QED BY <2>1, <2>2, <2>3, <2>4, <2>5, <2>6, <2>7 DEF Calm
<1> QED BY <1>3, <1>4, <1>5, <1>6, <1>7, <1>8

\* A request to select or authorize again reads the account.
LEMMA EditReadsStep ==
  ASSUME MeasureInv, MeasureTypeOK', NEW e \in Editors, ReadSelection(e)
  PROVE  MeasureInv'
<1> USE MeasureNames
    DEF MeasureInv, ChannelBecomes, SyncBecomes, EditorBecomes, ClerkBecomes, ModesKept
<1>1. /\ editor[e].pc = "idle"
      /\ EditorBecomes(e, "read")
  BY DEF MeasureTypeOK, ChannelRows, SyncLocals, SyncRuns, EditorLocals, ClerkLocals,
     ReadSelection
<1>2. UNCHANGED << channel, chosen, measured, syncRun, syncJob, clerk, reviewed, lapses >>
  BY DEF ReadSelection
<1>3. MeasuredAsChosen' BY <1>1, <1>2 DEF MeasuredAsChosen, SyncsKnown, Early
<1>4. DisconnectedKeepsNothing' BY <1>1, <1>2 DEF DisconnectedKeepsNothing,
         SyncsKnown, MeasuredAsChosen
<1>5. SyncsKnown' BY <1>1, <1>2 DEF SyncsKnown, Early, Sampling
<1>6. LeasesHeld' BY <1>1, <1>2 DEF LeasesHeld
<1>7. ClerksKnown' BY <1>1, <1>2 DEF ClerksKnown
<1>8. ASSUME lapses' = 0 PROVE Calm'
  <2>0. lapses = 0 /\ Calm
    BY <1>1, <1>2, <1>8
  <2>1. LeasesWhole' BY <1>1, <1>2, <1>8, <2>0 DEF Calm, LeasesWhole, Leasing,
           Sampling
  <2>2. RevokedStays' BY <1>1, <1>2, <1>8, <2>0 DEF Calm, RevokedStays, LeasesWhole,
           SyncsKnown
  <2>3. ModesStand' BY <1>1, <1>2, <1>8, <2>0 DEF Calm, ModesStand, ModeStands,
           LeasesWhole, Leasing, Sampling, RevokedStays
  <2>4. SamplesAlone' BY <1>1, <1>2, <1>8, <2>0 DEF Calm, SamplesAlone, OneSample,
           SyncsKnown, LeasesWhole, Leasing, Sampling, ModesStand, Early
  <2>5. LastSampleKept' BY <1>1, <1>2, <1>8, <2>0 DEF Calm, LastSampleKept, OneSample,
           Writes, SyncsKnown, LeasesWhole, Leasing, Sampling, ModesStand,
           SamplesAlone, Early, RevokedStays
  <2>6. ReviewsStand' BY <1>1, <1>2, <1>8, <2>0 DEF Calm, ReviewsStand, ClerksKnown,
           LeasesWhole, Leasing, Sampling, SyncsKnown, Early, RevokedStays
  <2>7. ApprovedAsReviewed' BY <1>1, <1>2, <1>8, <2>0 DEF Calm, ApprovedAsReviewed,
           SyncsKnown, Early, LeasesWhole, ModesStand, ModeStands, Leasing, Sampling,
           RevokedStays, LastSampleKept, OneSample, Writes, ReviewsStand, ClerksKnown
  <2> QED BY <2>1, <2>2, <2>3, <2>4, <2>5, <2>6, <2>7 DEF Calm
<1> QED BY <1>3, <1>4, <1>5, <1>6, <1>7, <1>8

\* It takes the lease.
LEMMA EditLeasesStep ==
  ASSUME MeasureInv, MeasureTypeOK', NEW e \in Editors, editor[e].pc = "read", Leasable,
         channel' = Leased(e), EditorGoes(e, "leased"),
         IF channel.status = "revoked" THEN Lapse ELSE UNCHANGED lapses,
         UNCHANGED << chosen, measured, syncRun, syncJob, clerk, reviewed >>
  PROVE  MeasureInv'
<1> USE MeasureNames
    DEF MeasureInv, ChannelBecomes, SyncBecomes, EditorBecomes, ClerkBecomes, ModesKept
<1>0. /\ editor[e].pc = "read" /\ Leasable
      /\ channel' = [channel EXCEPT !.owner = e, !.live = TRUE, !.term = @ + 1]
      /\ editor' = [editor EXCEPT ![e].pc = "leased"]
      /\ \/ lapses' = lapses + 1
         \/ lapses' = lapses /\ channel.status # "revoked"
  BY DEF Leased, Lapse, EditorGoes
<1>1. /\ editor[e].pc = "read" /\ Leasable
      /\ ChannelBecomes(channel.status, channel.promotion, channel.version,
                        channel.lastSync, channel.error, e, TRUE, channel.term + 1)
      /\ EditorBecomes(e, "leased")
      /\ \/ lapses' = lapses + 1
         \/ lapses' = lapses /\ channel.status = "connected"
  BY <1>0 DEF MeasureTypeOK, ChannelRows, SyncLocals, SyncRuns, EditorLocals,
     ClerkLocals
<1>2. UNCHANGED << chosen, measured, syncRun, syncJob, clerk, reviewed >>
  BY DEF Leased, Lapse, EditorGoes
<1>3. MeasuredAsChosen' BY <1>1, <1>2 DEF MeasuredAsChosen, SyncsKnown, Early
<1>4. DisconnectedKeepsNothing' BY <1>1, <1>2 DEF DisconnectedKeepsNothing,
         SyncsKnown, MeasuredAsChosen
<1>5. SyncsKnown' BY <1>1, <1>2 DEF SyncsKnown, Early, Sampling
<1>6. LeasesHeld' BY <1>1, <1>2 DEF LeasesHeld
<1>7. ClerksKnown' BY <1>1, <1>2 DEF ClerksKnown
<1>8. ASSUME lapses' = 0 PROVE Calm'
  <2>0. lapses = 0 /\ Calm
    BY <1>1, <1>2, <1>8
  <2>1. LeasesWhole' BY <1>1, <1>2, <1>8, <2>0 DEF Calm, LeasesWhole, Leasing,
           Sampling, Leasable
  <2>2. RevokedStays' BY <1>1, <1>2, <1>8, <2>0 DEF Calm, RevokedStays, LeasesWhole,
           SyncsKnown, Leasable
  <2>3. ModesStand' BY <1>1, <1>2, <1>8, <2>0 DEF Calm, ModesStand, ModeStands,
           LeasesWhole, Leasing, Sampling, RevokedStays, Leasable
  <2>4. SamplesAlone' BY <1>1, <1>2, <1>8, <2>0 DEF Calm, SamplesAlone, OneSample,
           SyncsKnown, LeasesWhole, Leasing, Sampling, ModesStand, Early, Leasable
  <2>5. LastSampleKept' BY <1>1, <1>2, <1>8, <2>0 DEF Calm, LastSampleKept, OneSample,
           Writes, SyncsKnown, LeasesWhole, Leasing, Sampling, ModesStand,
           SamplesAlone, Early, RevokedStays, Leasable
  <2>6. ReviewsStand' BY <1>1, <1>2, <1>8, <2>0 DEF Calm, ReviewsStand, ClerksKnown,
           LeasesWhole, Leasing, Sampling, SyncsKnown, Early, RevokedStays, Leasable
  <2>7. ApprovedAsReviewed' BY <1>1, <1>2, <1>8, <2>0 DEF Calm, ApprovedAsReviewed,
           SyncsKnown, Early, LeasesWhole, ModesStand, ModeStands, Leasing, Sampling,
           RevokedStays, LastSampleKept, OneSample, Writes, ReviewsStand, ClerksKnown,
           Leasable
  <2> QED BY <2>1, <2>2, <2>3, <2>4, <2>5, <2>6, <2>7 DEF Calm
<1> QED BY <1>3, <1>4, <1>5, <1>6, <1>7, <1>8

\* Resources are selected.
LEMMA ReplacesStep ==
  ASSUME MeasureInv, MeasureTypeOK', NEW e \in Editors, ReplaceSelection(e), Replaceable(e)
  PROVE  MeasureInv'
<1> USE MeasureNames
    DEF MeasureInv, ChannelBecomes, SyncBecomes, EditorBecomes, ClerkBecomes, ModesKept
<1>0. /\ editor[e].pc = "leased" /\ channel.owner = e /\ channel.status = "connected"
      /\ measured' = [r \in Resources |-> NoSync]
      /\ channel' = [channel EXCEPT !.status = "connected", !.promotion = "staging",
          !.lastSync = NoSync,
                !.error = FALSE, !.version = @ + 1]
      /\ editor' = [editor EXCEPT ![e].pc = "releasing"]
      /\ reviewed' = NoSync
  BY DEF ReplaceSelection, Replaceable, Restaged, EditorGoes
<1>1. /\ editor[e].pc = "leased" /\ channel.owner = e
      /\ ChannelBecomes("connected", "staging", channel.version + 1, NoSync, FALSE,
                        channel.owner, channel.live, channel.term)
      /\ channel.status = "connected"
      /\ EditorBecomes(e, "releasing")
      /\ \A r \in Resources : measured'[r] = NoSync
      /\ reviewed' = NoSync
  BY <1>0 DEF MeasureTypeOK, ChannelRows, SyncLocals, SyncRuns, EditorLocals,
     ClerkLocals
<1>2. UNCHANGED << syncRun, syncJob, clerk, lapses >>
  BY DEF ReplaceSelection, Replaceable, Restaged, EditorGoes
<1>3. MeasuredAsChosen' BY <1>1, <1>2 DEF MeasuredAsChosen, SyncsKnown, Early
<1>4. DisconnectedKeepsNothing' BY <1>1, <1>2 DEF DisconnectedKeepsNothing,
         SyncsKnown, MeasuredAsChosen
<1>5. SyncsKnown' BY <1>1, <1>2 DEF SyncsKnown, Early, Sampling
<1>6. LeasesHeld' BY <1>1, <1>2 DEF LeasesHeld
<1>7. ClerksKnown' BY <1>1, <1>2 DEF ClerksKnown
<1>8. ASSUME lapses' = 0 PROVE Calm'
  <2>0. lapses = 0 /\ Calm
    BY <1>1, <1>2, <1>8
  <2>1. LeasesWhole' BY <1>1, <1>2, <1>8, <2>0 DEF Calm, LeasesWhole, Leasing,
           Sampling
  <2>2. RevokedStays' BY <1>1, <1>2, <1>8, <2>0 DEF Calm, RevokedStays, LeasesWhole,
           SyncsKnown
  <2>3. ModesStand' BY <1>1, <1>2, <1>8, <2>0 DEF Calm, ModesStand, ModeStands,
           LeasesWhole, Leasing, Sampling, RevokedStays
  <2>4. SamplesAlone' BY <1>1, <1>2, <1>8, <2>0 DEF Calm, SamplesAlone, OneSample,
           SyncsKnown, LeasesWhole, Leasing, Sampling, ModesStand, Early
  <2>5. LastSampleKept' BY <1>1, <1>2, <1>8, <2>0 DEF Calm, LastSampleKept, OneSample,
           Writes, SyncsKnown, LeasesWhole, Leasing, Sampling, ModesStand,
           SamplesAlone, Early, RevokedStays
  <2>6. ReviewsStand' BY <1>1, <1>2, <1>8, <2>0 DEF Calm, ReviewsStand, ClerksKnown,
           LeasesWhole, Leasing, Sampling, SyncsKnown, Early, RevokedStays
  <2>7. ApprovedAsReviewed' BY <1>1, <1>2, <1>8, <2>0 DEF Calm, ApprovedAsReviewed,
           SyncsKnown, Early, LeasesWhole, ModesStand, ModeStands, Leasing, Sampling,
           RevokedStays, LastSampleKept, OneSample, Writes, ReviewsStand, ClerksKnown
  <2> QED BY <2>1, <2>2, <2>3, <2>4, <2>5, <2>6, <2>7 DEF Calm
<1> QED BY <1>3, <1>4, <1>5, <1>6, <1>7, <1>8

\* The account is authorized again.
LEMMA AuthorizesStep ==
  ASSUME MeasureInv, MeasureTypeOK', NEW e \in Editors, AuthorizeAgain(e), channel.owner = e
  PROVE  MeasureInv'
<1> USE MeasureNames
    DEF MeasureInv, ChannelBecomes, SyncBecomes, EditorBecomes, ClerkBecomes, ModesKept
<1>0. /\ editor[e].pc = "leased"
      /\ channel' = [channel EXCEPT !.status = "connected", !.promotion = "staging",
          !.lastSync = NoSync,
                !.error = FALSE, !.version = @ + 1]
      /\ editor' = [editor EXCEPT ![e].pc = "releasing"]
      /\ reviewed' = NoSync
  BY DEF AuthorizeAgain, Restaged, EditorGoes
<1>1. /\ editor[e].pc = "leased"
      /\ ChannelBecomes("connected", "staging", channel.version + 1, NoSync, FALSE,
                        channel.owner, channel.live, channel.term)
      /\ EditorBecomes(e, "releasing")
      /\ reviewed' = NoSync
  BY <1>0 DEF MeasureTypeOK, ChannelRows, SyncLocals, SyncRuns, EditorLocals,
     ClerkLocals
<1>2. UNCHANGED << chosen, measured, syncRun, syncJob, clerk, lapses >>
  BY DEF AuthorizeAgain, Restaged, EditorGoes
<1>3. MeasuredAsChosen' BY <1>1, <1>2 DEF MeasuredAsChosen, SyncsKnown, Early
<1>4. DisconnectedKeepsNothing' BY <1>1, <1>2 DEF DisconnectedKeepsNothing,
         SyncsKnown, MeasuredAsChosen
<1>5. SyncsKnown' BY <1>1, <1>2 DEF SyncsKnown, Early, Sampling
<1>6. LeasesHeld' BY <1>1, <1>2 DEF LeasesHeld
<1>7. ClerksKnown' BY <1>1, <1>2 DEF ClerksKnown
<1>8. ASSUME lapses' = 0 PROVE Calm'
  <2>0. lapses = 0 /\ Calm
    BY <1>1, <1>2, <1>8
  <2>1. LeasesWhole' BY <1>1, <1>2, <1>8, <2>0 DEF Calm, LeasesWhole, Leasing,
           Sampling, RevokedStays
  <2>2. RevokedStays' BY <1>1, <1>2, <1>8, <2>0 DEF Calm, RevokedStays, LeasesWhole,
           SyncsKnown
  <2>3. ModesStand' BY <1>1, <1>2, <1>8, <2>0 DEF Calm, ModesStand, ModeStands,
           LeasesWhole, Leasing, Sampling, RevokedStays
  <2>4. SamplesAlone' BY <1>1, <1>2, <1>8, <2>0 DEF Calm, SamplesAlone, OneSample,
           SyncsKnown, LeasesWhole, Leasing, Sampling, ModesStand, Early, RevokedStays
  <2>5. LastSampleKept' BY <1>1, <1>2, <1>8, <2>0 DEF Calm, LastSampleKept, OneSample,
           Writes, SyncsKnown, LeasesWhole, Leasing, Sampling, ModesStand,
           SamplesAlone, Early, RevokedStays
  <2>6. ReviewsStand' BY <1>1, <1>2, <1>8, <2>0 DEF Calm, ReviewsStand, ClerksKnown,
           LeasesWhole, Leasing, Sampling, SyncsKnown, Early, RevokedStays
  <2>7. ApprovedAsReviewed' BY <1>1, <1>2, <1>8, <2>0 DEF Calm, ApprovedAsReviewed,
           SyncsKnown, Early, LeasesWhole, ModesStand, ModeStands, Leasing, Sampling,
           RevokedStays, LastSampleKept, OneSample, Writes, ReviewsStand, ClerksKnown
  <2> QED BY <2>1, <2>2, <2>3, <2>4, <2>5, <2>6, <2>7 DEF Calm
<1> QED BY <1>3, <1>4, <1>5, <1>6, <1>7, <1>8

\* The lease of an edit is given back.
LEMMA EditReleasesStep ==
  ASSUME MeasureInv, MeasureTypeOK', NEW e \in Editors, ReleaseEdit(e), channel.owner = e
  PROVE  MeasureInv'
<1> USE MeasureNames
    DEF MeasureInv, ChannelBecomes, SyncBecomes, EditorBecomes, ClerkBecomes, ModesKept
<1>1. /\ editor[e].pc = "releasing"
      /\ ChannelBecomes(channel.status, channel.promotion, channel.version,
                        channel.lastSync, channel.error, NoSync, FALSE, channel.term)
      /\ EditorBecomes(e, "ended")
  BY DEF MeasureTypeOK, ChannelRows, SyncLocals, SyncRuns, EditorLocals, ClerkLocals,
     ReleaseEdit, Unlease, EditorGoes
<1>2. UNCHANGED << chosen, measured, syncRun, syncJob, clerk, reviewed, lapses >>
  BY DEF ReleaseEdit, Unlease, EditorGoes
<1>3. MeasuredAsChosen' BY <1>1, <1>2 DEF MeasuredAsChosen, SyncsKnown, Early
<1>4. DisconnectedKeepsNothing' BY <1>1, <1>2 DEF DisconnectedKeepsNothing,
         SyncsKnown, MeasuredAsChosen
<1>5. SyncsKnown' BY <1>1, <1>2 DEF SyncsKnown, Early, Sampling
<1>6. LeasesHeld' BY <1>1, <1>2 DEF LeasesHeld
<1>7. ClerksKnown' BY <1>1, <1>2 DEF ClerksKnown
<1>8. ASSUME lapses' = 0 PROVE Calm'
  <2>0. lapses = 0 /\ Calm
    BY <1>1, <1>2, <1>8
  <2>1. LeasesWhole' BY <1>1, <1>2, <1>8, <2>0 DEF Calm, LeasesWhole, Leasing,
           Sampling
  <2>2. RevokedStays' BY <1>1, <1>2, <1>8, <2>0 DEF Calm, RevokedStays, LeasesWhole,
           SyncsKnown
  <2>3. ModesStand' BY <1>1, <1>2, <1>8, <2>0 DEF Calm, ModesStand, ModeStands,
           LeasesWhole, Leasing, Sampling, RevokedStays
  <2>4. SamplesAlone' BY <1>1, <1>2, <1>8, <2>0 DEF Calm, SamplesAlone, OneSample,
           SyncsKnown, LeasesWhole, Leasing, Sampling, ModesStand, Early
  <2>5. LastSampleKept' BY <1>1, <1>2, <1>8, <2>0 DEF Calm, LastSampleKept, OneSample,
           Writes, SyncsKnown, LeasesWhole, Leasing, Sampling, ModesStand,
           SamplesAlone, Early, RevokedStays
  <2>6. ReviewsStand' BY <1>1, <1>2, <1>8, <2>0 DEF Calm, ReviewsStand, ClerksKnown,
           LeasesWhole, Leasing, Sampling, SyncsKnown, Early, RevokedStays
  <2>7. ApprovedAsReviewed' BY <1>1, <1>2, <1>8, <2>0 DEF Calm, ApprovedAsReviewed,
           SyncsKnown, Early, LeasesWhole, ModesStand, ModeStands, Leasing, Sampling,
           RevokedStays, LastSampleKept, OneSample, Writes, ReviewsStand, ClerksKnown
  <2> QED BY <2>1, <2>2, <2>3, <2>4, <2>5, <2>6, <2>7 DEF Calm
<1> QED BY <1>3, <1>4, <1>5, <1>6, <1>7, <1>8

\* An edit that fails, ends or is evicted, and changes nothing else.
LEMMA EditGoesStep ==
  ASSUME MeasureInv, MeasureTypeOK', NEW e \in Editors, NEW pc, EditorGoes(e, pc),
         UNCHANGED << channel, chosen, measured, syncRun, syncJob, clerk, reviewed >>,
         \/ pc = "ended" /\ editor[e].pc = "read"
         \/ pc = "releasing" /\ editor[e].pc = "leased"
         \/ pc = "ended" /\ editor[e].pc = "releasing" /\ channel.owner # e
         \/ pc = "dead" /\ lapses' = lapses + 1,
         lapses' = lapses \/ lapses' = lapses + 1
  PROVE  MeasureInv'
<1> USE MeasureNames
    DEF MeasureInv, ChannelBecomes, SyncBecomes, EditorBecomes, ClerkBecomes, ModesKept
<1>1. /\ EditorBecomes(e, pc)
  BY DEF MeasureTypeOK, ChannelRows, SyncLocals, SyncRuns, EditorLocals, ClerkLocals,
     EditorGoes
<1>2. UNCHANGED << channel, chosen, measured, syncRun, syncJob, clerk, reviewed >>
  BY DEF EditorGoes
<1>3. MeasuredAsChosen' BY <1>1, <1>2 DEF MeasuredAsChosen, SyncsKnown, Early
<1>4. DisconnectedKeepsNothing' BY <1>1, <1>2 DEF DisconnectedKeepsNothing,
         SyncsKnown, MeasuredAsChosen
<1>5. SyncsKnown' BY <1>1, <1>2 DEF SyncsKnown, Early, Sampling
<1>6. LeasesHeld' BY <1>1, <1>2 DEF LeasesHeld
<1>7. ClerksKnown' BY <1>1, <1>2 DEF ClerksKnown
<1>8. ASSUME lapses' = 0 PROVE Calm'
  <2>0. lapses = 0 /\ Calm
    BY <1>1, <1>2, <1>8
  <2>1. LeasesWhole' BY <1>1, <1>2, <1>8, <2>0 DEF Calm, LeasesWhole, Leasing,
           Sampling
  <2>2. RevokedStays' BY <1>1, <1>2, <1>8, <2>0 DEF Calm, RevokedStays, LeasesWhole,
           SyncsKnown
  <2>3. ModesStand' BY <1>1, <1>2, <1>8, <2>0 DEF Calm, ModesStand, ModeStands,
           LeasesWhole, Leasing, Sampling, RevokedStays
  <2>4. SamplesAlone' BY <1>1, <1>2, <1>8, <2>0 DEF Calm, SamplesAlone, OneSample,
           SyncsKnown, LeasesWhole, Leasing, Sampling, ModesStand, Early
  <2>5. LastSampleKept' BY <1>1, <1>2, <1>8, <2>0 DEF Calm, LastSampleKept, OneSample,
           Writes, SyncsKnown, LeasesWhole, Leasing, Sampling, ModesStand,
           SamplesAlone, Early, RevokedStays
  <2>6. ReviewsStand' BY <1>1, <1>2, <1>8, <2>0 DEF Calm, ReviewsStand, ClerksKnown,
           LeasesWhole, Leasing, Sampling, SyncsKnown, Early, RevokedStays
  <2>7. ApprovedAsReviewed' BY <1>1, <1>2, <1>8, <2>0 DEF Calm, ApprovedAsReviewed,
           SyncsKnown, Early, LeasesWhole, ModesStand, ModeStands, Leasing, Sampling,
           RevokedStays, LastSampleKept, OneSample, Writes, ReviewsStand, ClerksKnown
  <2> QED BY <2>1, <2>2, <2>3, <2>4, <2>5, <2>6, <2>7 DEF Calm
<1> QED BY <1>3, <1>4, <1>5, <1>6, <1>7, <1>8

\* A clerk reads the account to approve it.
LEMMA ReviewBeginsStep ==
  ASSUME MeasureInv, MeasureTypeOK', NEW c \in Clerks, ReadForApproval(c)
  PROVE  MeasureInv'
<1> USE MeasureNames
    DEF MeasureInv, ChannelBecomes, SyncBecomes, EditorBecomes, ClerkBecomes, ModesKept
<1>1. /\ clerk[c].pc = "idle" /\ channel.lastSync # NoSync /\ Leasable
      /\ ChannelBecomes(channel.status, channel.promotion, channel.version,
                        channel.lastSync, channel.error, NoSync, FALSE, channel.term)
      /\ ClerkBecomes(c, "approving", channel.term, channel.version, channel.lastSync)
  BY DEF MeasureTypeOK, ChannelRows, SyncLocals, SyncRuns, EditorLocals, ClerkLocals,
     ReadForApproval
<1>2. UNCHANGED << chosen, measured, syncRun, syncJob, editor, reviewed, lapses >>
  BY DEF ReadForApproval
<1>3. MeasuredAsChosen' BY <1>1, <1>2 DEF MeasuredAsChosen, SyncsKnown, Early
<1>4. DisconnectedKeepsNothing' BY <1>1, <1>2 DEF DisconnectedKeepsNothing,
         SyncsKnown, MeasuredAsChosen
<1>5. SyncsKnown' BY <1>1, <1>2 DEF SyncsKnown, Early, Sampling
<1>6. LeasesHeld' BY <1>1, <1>2 DEF LeasesHeld
<1>7. ClerksKnown' BY <1>1, <1>2 DEF ClerksKnown
<1>8. ASSUME lapses' = 0 PROVE Calm'
  <2>0. lapses = 0 /\ Calm
    BY <1>1, <1>2, <1>8
  <2>1. LeasesWhole' BY <1>1, <1>2, <1>8, <2>0 DEF Calm, LeasesWhole, Leasing,
           Sampling, Leasable
  <2>2. RevokedStays' BY <1>1, <1>2, <1>8, <2>0 DEF Calm, RevokedStays, LeasesWhole,
           SyncsKnown, Leasable
  <2>3. ModesStand' BY <1>1, <1>2, <1>8, <2>0 DEF Calm, ModesStand, ModeStands,
           LeasesWhole, Leasing, Sampling, RevokedStays, Leasable
  <2>4. SamplesAlone' BY <1>1, <1>2, <1>8, <2>0 DEF Calm, SamplesAlone, OneSample,
           SyncsKnown, LeasesWhole, Leasing, Sampling, ModesStand, Early, Leasable
  <2>5. LastSampleKept' BY <1>1, <1>2, <1>8, <2>0 DEF Calm, LastSampleKept, OneSample,
           Writes, SyncsKnown, LeasesWhole, Leasing, Sampling, ModesStand,
           SamplesAlone, Early, RevokedStays, Leasable
  <2>6. ReviewsStand' BY <1>1, <1>2, <1>8, <2>0 DEF Calm, ReviewsStand, ClerksKnown,
           LeasesWhole, Leasing, Sampling, SyncsKnown, Early, RevokedStays, Leasable
  <2>7. ApprovedAsReviewed' BY <1>1, <1>2, <1>8, <2>0 DEF Calm, ApprovedAsReviewed,
           SyncsKnown, Early, LeasesWhole, ModesStand, ModeStands, Leasing, Sampling,
           RevokedStays, LastSampleKept, OneSample, Writes, ReviewsStand, ClerksKnown,
           Leasable
  <2> QED BY <2>1, <2>2, <2>3, <2>4, <2>5, <2>6, <2>7 DEF Calm
<1> QED BY <1>3, <1>4, <1>5, <1>6, <1>7, <1>8

\* The sample is found to be proven.
LEMMA ReviewsStep ==
  ASSUME MeasureInv, MeasureTypeOK', NEW c \in Clerks, ReviewSample(c), clerk'[c].pc = "reviewed"
  PROVE  MeasureInv'
<1> USE MeasureNames
    DEF MeasureInv, ChannelBecomes, SyncBecomes, EditorBecomes, ClerkBecomes, ModesKept
<1>1. /\ clerk[c].pc = "approving"
      /\ ClerkBecomes(c, "reviewed", clerk[c].term, clerk[c].version, clerk[c].lastSync)
      /\ syncRun[clerk[c].lastSync].mode = "sample"
      /\ \A r \in chosen.of : measured[r] # NoSync
  BY SMTT(60) DEF MeasureTypeOK, ChannelRows, SyncLocals, SyncRuns, EditorLocals, ClerkLocals,
     ReviewSample, Proven, ClerkGoes
<1>2. UNCHANGED << channel, chosen, measured, syncRun, syncJob, editor, reviewed, lapses >>
  BY DEF ReviewSample, Proven, ClerkGoes
<1>3. MeasuredAsChosen' BY <1>1, <1>2 DEF MeasuredAsChosen, SyncsKnown, Early
<1>4. DisconnectedKeepsNothing' BY <1>1, <1>2 DEF DisconnectedKeepsNothing,
         SyncsKnown, MeasuredAsChosen
<1>5. SyncsKnown' BY <1>1, <1>2 DEF SyncsKnown, Early, Sampling
<1>6. LeasesHeld' BY <1>1, <1>2 DEF LeasesHeld
<1>7. ClerksKnown' BY <1>1, <1>2 DEF ClerksKnown
<1>8. ASSUME lapses' = 0 PROVE Calm'
  <2>0. lapses = 0 /\ Calm
    BY <1>1, <1>2, <1>8
  <2>1. LeasesWhole' BY <1>1, <1>2, <1>8, <2>0 DEF Calm, LeasesWhole, Leasing,
           Sampling
  <2>2. RevokedStays' BY <1>1, <1>2, <1>8, <2>0 DEF Calm, RevokedStays, LeasesWhole,
           SyncsKnown
  <2>3. ModesStand' BY <1>1, <1>2, <1>8, <2>0 DEF Calm, ModesStand, ModeStands,
           LeasesWhole, Leasing, Sampling, RevokedStays
  <2>4. SamplesAlone' BY <1>1, <1>2, <1>8, <2>0 DEF Calm, SamplesAlone, OneSample,
           SyncsKnown, LeasesWhole, Leasing, Sampling, ModesStand, Early
  <2>5. LastSampleKept' BY <1>1, <1>2, <1>8, <2>0 DEF Calm, LastSampleKept, OneSample,
           Writes, SyncsKnown, LeasesWhole, Leasing, Sampling, ModesStand,
           SamplesAlone, Early, RevokedStays
  <2>6. ReviewsStand' BY <1>1, <1>2, <1>8, <2>0 DEF Calm, ReviewsStand, ClerksKnown,
           LeasesWhole, Leasing, Sampling, SyncsKnown, Early, RevokedStays
  <2>7. ApprovedAsReviewed' BY <1>1, <1>2, <1>8, <2>0 DEF Calm, ApprovedAsReviewed,
           SyncsKnown, Early, LeasesWhole, ModesStand, ModeStands, Leasing, Sampling,
           RevokedStays, LastSampleKept, OneSample, Writes, ReviewsStand, ClerksKnown
  <2> QED BY <2>1, <2>2, <2>3, <2>4, <2>5, <2>6, <2>7 DEF Calm
<1> QED BY <1>3, <1>4, <1>5, <1>6, <1>7, <1>8

\* It is approved.
LEMMA ApprovesStep ==
  ASSUME MeasureInv, MeasureTypeOK', NEW c \in Clerks, ApproveMeasurements(c), Approvable(c)
  PROVE  MeasureInv'
<1> USE MeasureNames
    DEF MeasureInv, ChannelBecomes, SyncBecomes, EditorBecomes, ClerkBecomes, ModesKept
<1>1. /\ clerk[c].pc = "reviewed" /\ channel.status = "connected" /\ channel.term = clerk[c].term
      /\ channel.lastSync = clerk[c].lastSync /\ ~channel.error /\ channel.owner = NoSync
      /\ ChannelBecomes(channel.status, "approved", channel.version, channel.lastSync,
                        channel.error, channel.owner, channel.live, channel.term)
      /\ ClerkBecomes(c, "ended", clerk[c].term, clerk[c].version, clerk[c].lastSync)
      /\ reviewed' = channel.lastSync
  BY DEF MeasureTypeOK, ChannelRows, SyncLocals, SyncRuns, EditorLocals, ClerkLocals,
     ApproveMeasurements, Approvable, AsRead, ClerkGoes
<1>2. UNCHANGED << chosen, measured, syncRun, syncJob, editor, lapses >>
  BY DEF ApproveMeasurements, Approvable, AsRead, ClerkGoes
<1>3. MeasuredAsChosen' BY <1>1, <1>2 DEF MeasuredAsChosen, SyncsKnown, Early
<1>4. DisconnectedKeepsNothing' BY <1>1, <1>2 DEF DisconnectedKeepsNothing,
         SyncsKnown, MeasuredAsChosen
<1>5. SyncsKnown' BY <1>1, <1>2 DEF SyncsKnown, Early, Sampling
<1>6. LeasesHeld' BY <1>1, <1>2 DEF LeasesHeld
<1>7. ClerksKnown' BY <1>1, <1>2 DEF ClerksKnown
<1>8. ASSUME lapses' = 0 PROVE Calm'
  <2>0. lapses = 0 /\ Calm
    BY <1>1, <1>2, <1>8
  <2>1. LeasesWhole' BY <1>1, <1>2, <1>8, <2>0 DEF Calm, LeasesWhole, Leasing,
           Sampling
  <2>2. RevokedStays' BY <1>1, <1>2, <1>8, <2>0 DEF Calm, RevokedStays, LeasesWhole,
           SyncsKnown
  <2>3. ModesStand' BY <1>1, <1>2, <1>8, <2>0 DEF Calm, ModesStand, ModeStands,
           LeasesWhole, Leasing, Sampling, RevokedStays
  <2>4. SamplesAlone' BY <1>1, <1>2, <1>8, <2>0 DEF Calm, SamplesAlone, OneSample,
           SyncsKnown, LeasesWhole, Leasing, Sampling, ModesStand, Early
  <2>5. LastSampleKept' BY <1>1, <1>2, <1>8, <2>0 DEF Calm, LastSampleKept, OneSample,
           Writes, SyncsKnown, LeasesWhole, Leasing, Sampling, ModesStand,
           SamplesAlone, Early, RevokedStays
  <2>6. ReviewsStand' BY <1>1, <1>2, <1>8, <2>0 DEF Calm, ReviewsStand, ClerksKnown,
           LeasesWhole, Leasing, Sampling, SyncsKnown, Early, RevokedStays
  <2>7. ApprovedAsReviewed' BY <1>1, <1>2, <1>8, <2>0 DEF Calm, ApprovedAsReviewed,
           SyncsKnown, Early, LeasesWhole, ModesStand, ModeStands, Leasing, Sampling,
           RevokedStays, LastSampleKept, OneSample, Writes, ReviewsStand, ClerksKnown
  <2> QED BY <2>1, <2>2, <2>3, <2>4, <2>5, <2>6, <2>7 DEF Calm
<1> QED BY <1>3, <1>4, <1>5, <1>6, <1>7, <1>8

\* A clerk reads the account to exclude it.
LEMMA ExclusionBeginsStep ==
  ASSUME MeasureInv, MeasureTypeOK', NEW c \in Clerks, ReadForExclusion(c)
  PROVE  MeasureInv'
<1> USE MeasureNames
    DEF MeasureInv, ChannelBecomes, SyncBecomes, EditorBecomes, ClerkBecomes, ModesKept
<1>1. /\ clerk[c].pc = "idle"
      /\ ClerkBecomes(c, "excluding", channel.term, clerk[c].version, clerk[c].lastSync)
  BY DEF MeasureTypeOK, ChannelRows, SyncLocals, SyncRuns, EditorLocals, ClerkLocals,
     ReadForExclusion
<1>2. UNCHANGED << channel, chosen, measured, syncRun, syncJob, editor, reviewed, lapses >>
  BY DEF ReadForExclusion
<1>3. MeasuredAsChosen' BY <1>1, <1>2 DEF MeasuredAsChosen, SyncsKnown, Early
<1>4. DisconnectedKeepsNothing' BY <1>1, <1>2 DEF DisconnectedKeepsNothing,
         SyncsKnown, MeasuredAsChosen
<1>5. SyncsKnown' BY <1>1, <1>2 DEF SyncsKnown, Early, Sampling
<1>6. LeasesHeld' BY <1>1, <1>2 DEF LeasesHeld
<1>7. ClerksKnown' BY <1>1, <1>2 DEF ClerksKnown
<1>8. ASSUME lapses' = 0 PROVE Calm'
  <2>0. lapses = 0 /\ Calm
    BY <1>1, <1>2, <1>8
  <2>1. LeasesWhole' BY <1>1, <1>2, <1>8, <2>0 DEF Calm, LeasesWhole, Leasing,
           Sampling
  <2>2. RevokedStays' BY <1>1, <1>2, <1>8, <2>0 DEF Calm, RevokedStays, LeasesWhole,
           SyncsKnown
  <2>3. ModesStand' BY <1>1, <1>2, <1>8, <2>0 DEF Calm, ModesStand, ModeStands,
           LeasesWhole, Leasing, Sampling, RevokedStays
  <2>4. SamplesAlone' BY <1>1, <1>2, <1>8, <2>0 DEF Calm, SamplesAlone, OneSample,
           SyncsKnown, LeasesWhole, Leasing, Sampling, ModesStand, Early
  <2>5. LastSampleKept' BY <1>1, <1>2, <1>8, <2>0 DEF Calm, LastSampleKept, OneSample,
           Writes, SyncsKnown, LeasesWhole, Leasing, Sampling, ModesStand,
           SamplesAlone, Early, RevokedStays
  <2>6. ReviewsStand' BY <1>1, <1>2, <1>8, <2>0 DEF Calm, ReviewsStand, ClerksKnown,
           LeasesWhole, Leasing, Sampling, SyncsKnown, Early, RevokedStays
  <2>7. ApprovedAsReviewed' BY <1>1, <1>2, <1>8, <2>0 DEF Calm, ApprovedAsReviewed,
           SyncsKnown, Early, LeasesWhole, ModesStand, ModeStands, Leasing, Sampling,
           RevokedStays, LastSampleKept, OneSample, Writes, ReviewsStand, ClerksKnown
  <2> QED BY <2>1, <2>2, <2>3, <2>4, <2>5, <2>6, <2>7 DEF Calm
<1> QED BY <1>3, <1>4, <1>5, <1>6, <1>7, <1>8

\* It is excluded.
LEMMA ExcludesStep ==
  ASSUME MeasureInv, MeasureTypeOK', NEW c \in Clerks, ExcludeMeasurements(c), AsRead(c), Leasable
  PROVE  MeasureInv'
<1> USE MeasureNames
    DEF MeasureInv, ChannelBecomes, SyncBecomes, EditorBecomes, ClerkBecomes, ModesKept
<1>1. /\ clerk[c].pc = "excluding" /\ channel.status = "connected"
      /\ ChannelBecomes(channel.status, "staging", channel.version, channel.lastSync,
                        channel.error, channel.owner, channel.live, channel.term)
      /\ ClerkBecomes(c, "ended", clerk[c].term, clerk[c].version, clerk[c].lastSync)
  BY DEF MeasureTypeOK, ChannelRows, SyncLocals, SyncRuns, EditorLocals, ClerkLocals,
     ExcludeMeasurements, AsRead, ClerkGoes
<1>2. UNCHANGED << chosen, measured, syncRun, syncJob, editor, lapses >>
  BY DEF ExcludeMeasurements, AsRead, ClerkGoes
<1>3. MeasuredAsChosen' BY <1>1, <1>2 DEF MeasuredAsChosen, SyncsKnown, Early
<1>4. DisconnectedKeepsNothing' BY <1>1, <1>2 DEF DisconnectedKeepsNothing,
         SyncsKnown, MeasuredAsChosen
<1>5. SyncsKnown' BY <1>1, <1>2 DEF SyncsKnown, Early, Sampling
<1>6. LeasesHeld' BY <1>1, <1>2 DEF LeasesHeld
<1>7. ClerksKnown' BY <1>1, <1>2 DEF ClerksKnown
<1>8. ASSUME lapses' = 0 PROVE Calm'
  <2>0. lapses = 0 /\ Calm
    BY <1>1, <1>2, <1>8
  <2>1. LeasesWhole' BY <1>1, <1>2, <1>8, <2>0 DEF Calm, LeasesWhole, Leasing,
           Sampling, Leasable
  <2>2. RevokedStays' BY <1>1, <1>2, <1>8, <2>0 DEF Calm, RevokedStays, LeasesWhole,
           SyncsKnown, Leasable
  <2>3. ModesStand' BY <1>1, <1>2, <1>8, <2>0 DEF Calm, ModesStand, ModeStands,
           LeasesWhole, Leasing, Sampling, RevokedStays, Leasable
  <2>4. SamplesAlone' BY <1>1, <1>2, <1>8, <2>0 DEF Calm, SamplesAlone, OneSample,
           SyncsKnown, LeasesWhole, Leasing, Sampling, ModesStand, Early, Leasable
  <2>5. LastSampleKept' BY <1>1, <1>2, <1>8, <2>0 DEF Calm, LastSampleKept, OneSample,
           Writes, SyncsKnown, LeasesWhole, Leasing, Sampling, ModesStand,
           SamplesAlone, Early, RevokedStays, Leasable
  <2>6. ReviewsStand' BY <1>1, <1>2, <1>8, <2>0 DEF Calm, ReviewsStand, ClerksKnown,
           LeasesWhole, Leasing, Sampling, SyncsKnown, Early, RevokedStays, Leasable
  <2>7. ApprovedAsReviewed' BY <1>1, <1>2, <1>8, <2>0 DEF Calm, ApprovedAsReviewed,
           SyncsKnown, Early, LeasesWhole, ModesStand, ModeStands, Leasing, Sampling,
           RevokedStays, LastSampleKept, OneSample, Writes, ReviewsStand, ClerksKnown,
           Leasable
  <2> QED BY <2>1, <2>2, <2>3, <2>4, <2>5, <2>6, <2>7 DEF Calm
<1> QED BY <1>3, <1>4, <1>5, <1>6, <1>7, <1>8

\* A review that ends and changes nothing else.
LEMMA ClerkEndsStep ==
  ASSUME MeasureInv, MeasureTypeOK', NEW c \in Clerks, ClerkGoes(c, "ended"),
         UNCHANGED << channel, chosen, measured, syncRun, syncJob, editor, reviewed, lapses >>
  PROVE  MeasureInv'
<1> USE MeasureNames
    DEF MeasureInv, ChannelBecomes, SyncBecomes, EditorBecomes, ClerkBecomes, ModesKept
<1>1. /\ ClerkBecomes(c, "ended", clerk[c].term, clerk[c].version, clerk[c].lastSync)
  BY DEF MeasureTypeOK, ChannelRows, SyncLocals, SyncRuns, EditorLocals, ClerkLocals,
     ClerkGoes
<1>2. UNCHANGED << channel, chosen, measured, syncRun, syncJob, editor, reviewed, lapses >>
  BY DEF ClerkGoes
<1>3. MeasuredAsChosen' BY <1>1, <1>2 DEF MeasuredAsChosen, SyncsKnown, Early
<1>4. DisconnectedKeepsNothing' BY <1>1, <1>2 DEF DisconnectedKeepsNothing,
         SyncsKnown, MeasuredAsChosen
<1>5. SyncsKnown' BY <1>1, <1>2 DEF SyncsKnown, Early, Sampling
<1>6. LeasesHeld' BY <1>1, <1>2 DEF LeasesHeld
<1>7. ClerksKnown' BY <1>1, <1>2 DEF ClerksKnown
<1>8. ASSUME lapses' = 0 PROVE Calm'
  <2>0. lapses = 0 /\ Calm
    BY <1>1, <1>2, <1>8
  <2>1. LeasesWhole' BY <1>1, <1>2, <1>8, <2>0 DEF Calm, LeasesWhole, Leasing,
           Sampling
  <2>2. RevokedStays' BY <1>1, <1>2, <1>8, <2>0 DEF Calm, RevokedStays, LeasesWhole,
           SyncsKnown
  <2>3. ModesStand' BY <1>1, <1>2, <1>8, <2>0 DEF Calm, ModesStand, ModeStands,
           LeasesWhole, Leasing, Sampling, RevokedStays
  <2>4. SamplesAlone' BY <1>1, <1>2, <1>8, <2>0 DEF Calm, SamplesAlone, OneSample,
           SyncsKnown, LeasesWhole, Leasing, Sampling, ModesStand, Early
  <2>5. LastSampleKept' BY <1>1, <1>2, <1>8, <2>0 DEF Calm, LastSampleKept, OneSample,
           Writes, SyncsKnown, LeasesWhole, Leasing, Sampling, ModesStand,
           SamplesAlone, Early, RevokedStays
  <2>6. ReviewsStand' BY <1>1, <1>2, <1>8, <2>0 DEF Calm, ReviewsStand, ClerksKnown,
           LeasesWhole, Leasing, Sampling, SyncsKnown, Early, RevokedStays
  <2>7. ApprovedAsReviewed' BY <1>1, <1>2, <1>8, <2>0 DEF Calm, ApprovedAsReviewed,
           SyncsKnown, Early, LeasesWhole, ModesStand, ModeStands, Leasing, Sampling,
           RevokedStays, LastSampleKept, OneSample, Writes, ReviewsStand, ClerksKnown
  <2> QED BY <2>1, <2>2, <2>3, <2>4, <2>5, <2>6, <2>7 DEF Calm
<1> QED BY <1>3, <1>4, <1>5, <1>6, <1>7, <1>8

\* The account is disconnected.
LEMMA DisconnectsStep ==
  ASSUME MeasureInv, MeasureTypeOK', DisconnectChannel
  PROVE  MeasureInv'
<1> USE MeasureNames
    DEF MeasureInv, ChannelBecomes, SyncBecomes, EditorBecomes, ClerkBecomes, ModesKept
<1>1. /\ channel.status = "connected"
      /\ ChannelBecomes("revoked", "blocked", channel.version + 1, NoSync, FALSE, NoSync,
                        FALSE, channel.term + 1)
      /\ chosen'.of = {} /\ \A r \in Resources : measured'[r] = NoSync
  BY DEF MeasureTypeOK, ChannelRows, SyncLocals, SyncRuns, EditorLocals, ClerkLocals,
     DisconnectChannel, NoneChosen
<1>2. UNCHANGED << syncRun, syncJob, editor, clerk, lapses >>
  BY DEF DisconnectChannel, NoneChosen
<1>3. MeasuredAsChosen' BY <1>1, <1>2 DEF MeasuredAsChosen, SyncsKnown, Early
<1>4. DisconnectedKeepsNothing' BY <1>1, <1>2 DEF DisconnectedKeepsNothing,
         SyncsKnown, MeasuredAsChosen
<1>5. SyncsKnown' BY <1>1, <1>2 DEF SyncsKnown, Early, Sampling
<1>6. LeasesHeld' BY <1>1, <1>2 DEF LeasesHeld
<1>7. ClerksKnown' BY <1>1, <1>2 DEF ClerksKnown
<1>8. ASSUME lapses' = 0 PROVE Calm'
  <2>0. lapses = 0 /\ Calm
    BY <1>1, <1>2, <1>8
  <2>1. LeasesWhole' BY <1>1, <1>2, <1>8, <2>0 DEF Calm, LeasesWhole, Leasing,
           Sampling
  <2>2. RevokedStays' BY <1>1, <1>2, <1>8, <2>0 DEF Calm, RevokedStays, LeasesWhole,
           SyncsKnown
  <2>3. ModesStand' BY <1>1, <1>2, <1>8, <2>0 DEF Calm, ModesStand, ModeStands,
           LeasesWhole, Leasing, Sampling, RevokedStays
  <2>4. SamplesAlone' BY <1>1, <1>2, <1>8, <2>0 DEF Calm, SamplesAlone, OneSample,
           SyncsKnown, LeasesWhole, Leasing, Sampling, ModesStand, Early
  <2>5. LastSampleKept' BY <1>1, <1>2, <1>8, <2>0 DEF Calm, LastSampleKept, OneSample,
           Writes, SyncsKnown, LeasesWhole, Leasing, Sampling, ModesStand,
           SamplesAlone, Early, RevokedStays
  <2>6. ReviewsStand' BY <1>1, <1>2, <1>8, <2>0 DEF Calm, ReviewsStand, ClerksKnown,
           LeasesWhole, Leasing, Sampling, SyncsKnown, Early, RevokedStays
  <2>7. ApprovedAsReviewed' BY <1>1, <1>2, <1>8, <2>0 DEF Calm, ApprovedAsReviewed,
           SyncsKnown, Early, LeasesWhole, ModesStand, ModeStands, Leasing, Sampling,
           RevokedStays, LastSampleKept, OneSample, Writes, ReviewsStand, ClerksKnown
  <2> QED BY <2>1, <2>2, <2>3, <2>4, <2>5, <2>6, <2>7 DEF Calm
<1> QED BY <1>3, <1>4, <1>5, <1>6, <1>7, <1>8

\* A lease runs out.
LEMMA ChannelLeaseEndsStep ==
  ASSUME MeasureInv, MeasureTypeOK', ChannelLeaseEnds
  PROVE  MeasureInv'
<1> USE MeasureNames
    DEF MeasureInv, ChannelBecomes, SyncBecomes, EditorBecomes, ClerkBecomes, ModesKept
<1>1. /\ channel.live
      /\ ChannelBecomes(channel.status, channel.promotion, channel.version,
                        channel.lastSync, channel.error, channel.owner, FALSE, channel.term)
      /\ \/ lapses' = lapses + 1
         \/ lapses' = lapses /\ Evicted(channel.owner)
  BY DEF MeasureTypeOK, ChannelRows, SyncLocals, SyncRuns, EditorLocals, ClerkLocals,
     ChannelLeaseEnds, Lapse
<1>2. UNCHANGED << chosen, measured, syncRun, syncJob, editor, clerk, reviewed >>
  BY DEF ChannelLeaseEnds, Lapse
<1>3. MeasuredAsChosen' BY <1>1, <1>2 DEF MeasuredAsChosen, SyncsKnown, Early
<1>4. DisconnectedKeepsNothing' BY <1>1, <1>2 DEF DisconnectedKeepsNothing,
         SyncsKnown, MeasuredAsChosen
<1>5. SyncsKnown' BY <1>1, <1>2 DEF SyncsKnown, Early, Sampling
<1>6. LeasesHeld' BY <1>1, <1>2 DEF LeasesHeld
<1>7. ClerksKnown' BY <1>1, <1>2 DEF ClerksKnown
<1>8. ASSUME lapses' = 0 PROVE Calm'
  <2>0. lapses = 0 /\ Calm
    BY <1>1, <1>2, <1>8
  <2>1. LeasesWhole' BY <1>1, <1>2, <1>8, <2>0 DEF Calm, LeasesWhole, Leasing,
           Sampling, Evicted
  <2>2. RevokedStays' BY <1>1, <1>2, <1>8, <2>0 DEF Calm, RevokedStays, LeasesWhole,
           SyncsKnown
  <2>3. ModesStand' BY <1>1, <1>2, <1>8, <2>0 DEF Calm, ModesStand, ModeStands,
           LeasesWhole, Leasing, Sampling, RevokedStays
  <2>4. SamplesAlone' BY <1>1, <1>2, <1>8, <2>0 DEF Calm, SamplesAlone, OneSample,
           SyncsKnown, LeasesWhole, Leasing, Sampling, ModesStand, Early
  <2>5. LastSampleKept' BY <1>1, <1>2, <1>8, <2>0 DEF Calm, LastSampleKept, OneSample,
           Writes, SyncsKnown, LeasesWhole, Leasing, Sampling, ModesStand,
           SamplesAlone, Early, RevokedStays
  <2>6. ReviewsStand' BY <1>1, <1>2, <1>8, <2>0 DEF Calm, ReviewsStand, ClerksKnown,
           LeasesWhole, Leasing, Sampling, SyncsKnown, Early, RevokedStays
  <2>7. ApprovedAsReviewed' BY <1>1, <1>2, <1>8, <2>0 DEF Calm, ApprovedAsReviewed,
           SyncsKnown, Early, LeasesWhole, ModesStand, ModeStands, Leasing, Sampling,
           RevokedStays, LastSampleKept, OneSample, Writes, ReviewsStand, ClerksKnown
  <2> QED BY <2>1, <2>2, <2>3, <2>4, <2>5, <2>6, <2>7 DEF Calm
<1> QED BY <1>3, <1>4, <1>5, <1>6, <1>7, <1>8

-----------------------------------------------------------------------------
(* Types.                                                                  *)

LEMMA LeasedType ==
  ASSUME channel \in ChannelRows, NEW p \in Leaseholders
  PROVE  Leased(p) \in ChannelRows
<1> DEFINE n == channel.term + 1
<1>1. n \in Nat /\ Leased(p) = [channel EXCEPT !.owner = p, !.live = TRUE, !.term = n]
  BY DEF Leased, ChannelRows
<1> HIDE DEF n
<1> QED BY <1>1 DEF ChannelRows

LEMMA RestagedType ==
  ASSUME channel \in ChannelRows
  PROVE  Restaged \in ChannelRows
<1> DEFINE n == channel.version + 1
<1>1. /\ n \in Edition /\ NoSync \in Maybe
      /\ Restaged = [channel EXCEPT !.status = "connected", !.promotion = "staging",
                                    !.lastSync = NoSync, !.error = FALSE, !.version = n]
  BY DEF Restaged, ChannelRows, Maybe, Edition
<1> HIDE DEF n
<1> QED BY <1>1 DEF ChannelRows

LEMMA UnleaseType ==
  ASSUME channel \in ChannelRows, NEW p, Unlease(p)
  PROVE  channel' \in ChannelRows
BY DEF Unlease, ChannelRows

LEMMA LapseType ==
  ASSUME lapses \in 0..MaxLapses, Lapse
  PROVE  lapses' \in 0..MaxLapses
BY MeasureAssumption DEF Lapse

LEMMA SyncGoesType ==
  ASSUME syncJob \in [Syncs -> SyncLocals], NEW x \in Syncs,
         NEW pc \in {"idle", "read", "leased", "begun", "fetched", "writing", "written",
             "completed", "published", "failed", "half", "releasing", "ended", "dead"},
         SyncGoes(x, pc)
  PROVE  syncJob' \in [Syncs -> SyncLocals]
BY DEF SyncGoes, SyncLocals

LEMMA EditorGoesType ==
  ASSUME editor \in [Editors -> EditorLocals], NEW e \in Editors,
         NEW pc \in {"idle", "read", "leased", "releasing", "ended", "dead"}, EditorGoes(e, pc)
  PROVE  editor' \in [Editors -> EditorLocals]
BY DEF EditorGoes, EditorLocals

LEMMA ReadChannelType ==
  ASSUME MeasureTypeOK, NEW x \in Syncs, ReadChannel(x)
  PROVE  MeasureTypeOK'
<1> DEFINE m == IF channel.promotion = "staging" THEN "sample" ELSE "incremental"
<1>1. m \in {"sample", "incremental"} /\ channel.version \in Edition
  BY DEF MeasureTypeOK, ChannelRows
<1>2. /\ syncJob' = [syncJob EXCEPT ![x].pc = "read", ![x].version = channel.version,
                                    ![x].mode = m]
      /\ UNCHANGED << channel, chosen, measured, syncRun, editor, clerk, reviewed, lapses >>
  BY DEF ReadChannel
<1> HIDE DEF m
<1>3. syncJob' = [syncJob EXCEPT ![x] = [syncJob[x] EXCEPT !.pc = "read",
                                    !.version = channel.version, !.mode = m]]
  BY <1>2 DEF MeasureTypeOK
<1>4. [syncJob[x] EXCEPT !.pc = "read", !.version = channel.version, !.mode = m] \in SyncLocals
  BY <1>1 DEF MeasureTypeOK, SyncLocals
<1>5. syncJob' \in [Syncs -> SyncLocals]
  BY <1>3, <1>4 DEF MeasureTypeOK
<1> QED BY <1>2, <1>5 DEF MeasureTypeOK

LEMMA LeaseForSyncType ==
  ASSUME MeasureTypeOK, NEW x \in Syncs, LeaseForSync(x)
  PROVE  MeasureTypeOK'
<1>1. syncJob' \in [Syncs -> SyncLocals]
  BY SyncGoesType DEF LeaseForSync, MeasureTypeOK
<1>2. channel' \in ChannelRows
  BY LeasedType DEF LeaseForSync, MeasureTypeOK, Leaseholders
<1>3. lapses' \in 0..MaxLapses
  BY LapseType DEF LeaseForSync, MeasureTypeOK
<1> QED BY <1>1, <1>2, <1>3 DEF LeaseForSync, MeasureTypeOK

LEMMA BeginRunType ==
  ASSUME MeasureTypeOK, NEW x \in Syncs, BeginRun(x)
  PROVE  MeasureTypeOK'
<1>1. CASE SyncGoes(x, "failed") /\ UNCHANGED syncRun
  BY <1>1, SyncGoesType DEF BeginRun, MeasureTypeOK
<1>2. CASE /\ syncRun' = [syncRun EXCEPT ![x].status = "running", ![x].mode = syncJob[x].mode,
                                        ![x].version = syncJob[x].version]
           /\ syncJob' = [syncJob EXCEPT ![x].pc = "begun", ![x].from = chosen]
  <2>1. syncRun' \in [Syncs -> SyncRuns]
    <3>1. syncRun' = [syncRun EXCEPT ![x] = [syncRun[x] EXCEPT !.status = "running",
                          !.mode = syncJob[x].mode, !.version = syncJob[x].version]]
      BY <1>2 DEF MeasureTypeOK
    <3>2. [syncRun[x] EXCEPT !.status = "running", !.mode = syncJob[x].mode,
                             !.version = syncJob[x].version] \in SyncRuns
      <4> DEFINE m == syncJob[x].mode
                 v == syncJob[x].version
      <4>1. /\ m \in {"sample", "incremental"} /\ v \in Edition /\ syncRun[x] \in SyncRuns
        BY DEF MeasureTypeOK, SyncLocals
      <4> HIDE DEF m, v
      <4>2. [syncRun[x] EXCEPT !.status = "running", !.mode = m, !.version = v] \in SyncRuns
        BY <4>1 DEF SyncRuns
      <4> QED BY <4>2 DEF m, v
    <3> QED BY <3>1, <3>2 DEF MeasureTypeOK
  <2>2. syncJob' \in [Syncs -> SyncLocals]
    <3>1. syncJob' = [syncJob EXCEPT ![x] = [syncJob[x] EXCEPT !.pc = "begun", !.from = chosen]]
      BY <1>2 DEF MeasureTypeOK
    <3>2. [syncJob[x] EXCEPT !.pc = "begun", !.from = chosen] \in SyncLocals
      BY DEF MeasureTypeOK, SyncLocals
    <3> QED BY <3>1, <3>2 DEF MeasureTypeOK
  <2> QED BY <2>1, <2>2 DEF BeginRun, MeasureTypeOK
<1> QED BY <1>1, <1>2 DEF BeginRun

LEMMA FetchMeasurementsType ==
  ASSUME MeasureTypeOK, NEW x \in Syncs, FetchMeasurements(x)
  PROVE  MeasureTypeOK'
<1>1. PICK got \in SUBSET syncJob[x].from.of, warned \in BOOLEAN :
        /\ syncRun' = [syncRun EXCEPT ![x].warned = warned, ![x].staged = Cardinality(got)]
        /\ \/ SyncGoes(x, "failed")
           \/ syncJob' = [syncJob EXCEPT ![x].pc = "fetched", ![x].todo = got]
        /\ UNCHANGED << channel, chosen, measured, editor, clerk, reviewed, lapses >>
  BY DEF FetchMeasurements
<1>2. got \in SUBSET Resources
  BY DEF MeasureTypeOK, SyncLocals, Selections
<1>3. Cardinality(got) \in Nat
  BY <1>2, MeasureAssumption, FS_Subset, FS_CardinalityType
<1>4. syncRun' \in [Syncs -> SyncRuns]
  <2> DEFINE n == Cardinality(got)
  <2>1. /\ n \in Nat
        /\ syncRun' = [syncRun EXCEPT ![x] = [syncRun[x] EXCEPT !.warned = warned, !.staged = n]]
    BY <1>1, <1>3 DEF MeasureTypeOK
  <2> HIDE DEF n
  <2>2. [syncRun[x] EXCEPT !.warned = warned, !.staged = n] \in SyncRuns
    BY <2>1 DEF MeasureTypeOK, SyncRuns
  <2> QED BY <2>1, <2>2 DEF MeasureTypeOK
<1>5. syncJob' \in [Syncs -> SyncLocals]
  <2>1. CASE SyncGoes(x, "failed")
    BY <2>1, SyncGoesType DEF MeasureTypeOK
  <2>2. CASE syncJob' = [syncJob EXCEPT ![x].pc = "fetched", ![x].todo = got]
    <3>1. syncJob' = [syncJob EXCEPT ![x] = [syncJob[x] EXCEPT !.pc = "fetched", !.todo = got]]
      BY <2>2 DEF MeasureTypeOK
    <3>2. [syncJob[x] EXCEPT !.pc = "fetched", !.todo = got] \in SyncLocals
      BY <1>2 DEF MeasureTypeOK, SyncLocals
    <3> QED BY <3>1, <3>2 DEF MeasureTypeOK
  <2> QED BY <1>1, <2>1, <2>2
<1> QED BY <1>1, <1>4, <1>5 DEF MeasureTypeOK

LEMMA PersistBatchType ==
  ASSUME MeasureTypeOK, NEW x \in Syncs, PersistBatch(x)
  PROVE  MeasureTypeOK'
<1>1. PICK batch \in SUBSET syncJob[x].todo :
        /\ measured' = [r \in Resources |->
                IF r \in batch /\ chosen = syncJob[x].from THEN x ELSE Emptied(x)[r]]
        /\ syncJob' = [syncJob EXCEPT ![x].todo = @ \ batch, ![x].begun = TRUE,
                                ![x].pc = IF batch = syncJob[x].todo THEN "written" ELSE @]
        /\ UNCHANGED << channel, chosen, syncRun, editor, clerk, reviewed, lapses >>
  BY DEF PersistBatch
<1> DEFINE t == syncJob[x].todo \ batch
           p == IF batch = syncJob[x].todo THEN "written" ELSE syncJob[x].pc
<1>2. /\ t \in SUBSET Resources /\ x \in Maybe
      /\ p \in {"idle", "read", "leased", "begun", "fetched", "writing", "written",
                "completed", "published", "failed", "half", "releasing", "ended", "dead"}
  BY DEF MeasureTypeOK, SyncLocals, Maybe
<1>3. syncJob' = [syncJob EXCEPT ![x] = [syncJob[x] EXCEPT !.todo = t, !.begun = TRUE, !.pc = p]]
  BY <1>1 DEF MeasureTypeOK
<1> HIDE DEF t, p
<1>4. [syncJob[x] EXCEPT !.todo = t, !.begun = TRUE, !.pc = p] \in SyncLocals
  <2>1. syncJob[x] \in SyncLocals BY DEF MeasureTypeOK
  <2> QED BY <1>2, <2>1 DEF SyncLocals
<1>5. syncJob' \in [Syncs -> SyncLocals]
  BY <1>3, <1>4 DEF MeasureTypeOK
<1>6. Emptied(x) \in [Resources -> Maybe]
  BY DEF Emptied, Maybe, MeasureTypeOK
<1>7. measured' \in [Resources -> Maybe]
  BY <1>1, <1>2, <1>6
<1> QED BY <1>1, <1>5, <1>7 DEF MeasureTypeOK

LEMMA CompleteRunType ==
  ASSUME MeasureTypeOK, NEW x \in Syncs, CompleteRun(x)
  PROVE  MeasureTypeOK'
<1>1. syncRun' \in [Syncs -> SyncRuns]
  BY DEF CompleteRun, MeasureTypeOK, SyncRuns
<1> QED BY <1>1, SyncGoesType DEF CompleteRun, MeasureTypeOK

LEMMA PublishRunType ==
  ASSUME MeasureTypeOK, NEW x \in Syncs, PublishRun(x)
  PROVE  MeasureTypeOK'
<1>1. syncJob' \in [Syncs -> SyncLocals]
  BY SyncGoesType DEF PublishRun, MeasureTypeOK
<1>2. channel' \in ChannelRows
  <2> DEFINE m == IF syncJob[x].mode = "sample" THEN "staging" ELSE "approved"
  <2>1. m \in {"staging", "approved", "blocked"} /\ syncRun[x].warned \in BOOLEAN /\ x \in Maybe
    BY DEF MeasureTypeOK, SyncRuns, Maybe
  <2>2. \/ channel' = channel
        \/ channel' = [channel EXCEPT !.status = "connected", !.lastSync = x,
                                      !.promotion = m, !.error = syncRun[x].warned]
    BY DEF PublishRun
  <2> HIDE DEF m
  <2>3. channel \in ChannelRows BY DEF MeasureTypeOK
  <2> DEFINE w == syncRun[x].warned
  <2>4. w \in BOOLEAN BY <2>1
  <2>5. \/ channel' = channel
        \/ channel' = [channel EXCEPT !.status = "connected", !.lastSync = x,
                                      !.promotion = m, !.error = w]
    BY <2>2
  <2> HIDE DEF w
  <2> QED BY <2>1, <2>3, <2>4, <2>5 DEF ChannelRows
<1> QED BY <1>1, <1>2 DEF PublishRun, MeasureTypeOK

LEMMA FailRunType ==
  ASSUME MeasureTypeOK, NEW x \in Syncs, FailRun(x)
  PROVE  MeasureTypeOK'
<1>1. syncRun' \in [Syncs -> SyncRuns]
  BY DEF FailRun, MeasureTypeOK, SyncRuns
<1> QED BY <1>1, SyncGoesType DEF FailRun, MeasureTypeOK

LEMMA LeaseForEditType ==
  ASSUME MeasureTypeOK, NEW e \in Editors, LeaseForEdit(e)
  PROVE  MeasureTypeOK'
<1>1. editor' \in [Editors -> EditorLocals]
  BY EditorGoesType DEF LeaseForEdit, MeasureTypeOK
<1>2. channel' \in ChannelRows
  BY LeasedType DEF LeaseForEdit, MeasureTypeOK, Leaseholders
<1>3. lapses' \in 0..MaxLapses
  BY LapseType DEF LeaseForEdit, MeasureTypeOK
<1> QED BY <1>1, <1>2, <1>3 DEF LeaseForEdit, MeasureTypeOK

LEMMA ReplaceSelectionType ==
  ASSUME MeasureTypeOK, NEW e \in Editors, ReplaceSelection(e)
  PROVE  MeasureTypeOK'
<1>1. editor' \in [Editors -> EditorLocals]
  BY EditorGoesType DEF ReplaceSelection, MeasureTypeOK
<1>2. channel' \in ChannelRows
  BY RestagedType DEF ReplaceSelection, MeasureTypeOK
<1>3. chosen' \in Selections
  BY DEF ReplaceSelection, MeasureTypeOK, Selections, ChannelRows, Edition
<1>4. measured' \in [Resources -> Maybe] /\ reviewed' \in Maybe
  BY DEF ReplaceSelection, MeasureTypeOK, Maybe
<1> QED BY <1>1, <1>2, <1>3, <1>4 DEF ReplaceSelection, MeasureTypeOK

LEMMA AuthorizeAgainType ==
  ASSUME MeasureTypeOK, NEW e \in Editors, AuthorizeAgain(e)
  PROVE  MeasureTypeOK'
<1>1. editor' \in [Editors -> EditorLocals]
  BY EditorGoesType DEF AuthorizeAgain, MeasureTypeOK
<1>2. channel' \in ChannelRows /\ reviewed' \in Maybe
  BY RestagedType DEF AuthorizeAgain, MeasureTypeOK, Maybe
<1> QED BY <1>1, <1>2 DEF AuthorizeAgain, MeasureTypeOK

LEMMA DisconnectChannelType ==
  ASSUME MeasureTypeOK, DisconnectChannel
  PROVE  MeasureTypeOK'
<1>1. channel' \in ChannelRows
  <2> DEFINE n == channel.version + 1
             t == channel.term + 1
  <2>1. /\ n \in Edition /\ t \in Nat /\ NoSync \in Maybe /\ channel \in ChannelRows
        /\ channel' = [channel EXCEPT !.status = "revoked", !.promotion = "blocked",
                !.lastSync = NoSync, !.error = FALSE, !.owner = NoSync, !.live = FALSE,
                !.term = t, !.version = n]
    BY DEF DisconnectChannel, MeasureTypeOK, ChannelRows, Maybe, Edition
  <2> HIDE DEF n, t
  <2> QED BY <2>1 DEF ChannelRows
<1>2. /\ chosen' \in Selections /\ measured' \in [Resources -> Maybe] /\ reviewed' \in Maybe
  BY DEF DisconnectChannel, MeasureTypeOK, NoneChosen, Selections, Maybe, Edition
<1> QED BY <1>1, <1>2 DEF DisconnectChannel, MeasureTypeOK

LEMMA ChannelLeaseEndsType ==
  ASSUME MeasureTypeOK, ChannelLeaseEnds
  PROVE  MeasureTypeOK'
<1>1. channel' \in ChannelRows
  BY DEF ChannelLeaseEnds, MeasureTypeOK, ChannelRows
<1>2. lapses' \in 0..MaxLapses
  BY LapseType DEF ChannelLeaseEnds, MeasureTypeOK
<1> QED BY <1>1, <1>2 DEF ChannelLeaseEnds, MeasureTypeOK

LEMMA ReleaseSyncType ==
  ASSUME MeasureTypeOK, NEW x \in Syncs, ReleaseSync(x)
  PROVE  MeasureTypeOK'
<1>1. syncJob' \in [Syncs -> SyncLocals] /\ channel' \in ChannelRows
  BY SyncGoesType, UnleaseType DEF ReleaseSync, MeasureTypeOK
<1> QED BY <1>1 DEF ReleaseSync, MeasureTypeOK

LEMMA ReleaseEditType ==
  ASSUME MeasureTypeOK, NEW e \in Editors, ReleaseEdit(e)
  PROVE  MeasureTypeOK'
<1>1. editor' \in [Editors -> EditorLocals] /\ channel' \in ChannelRows
  BY EditorGoesType, UnleaseType DEF ReleaseEdit, MeasureTypeOK
<1> QED BY <1>1 DEF ReleaseEdit, MeasureTypeOK

LEMMA RenewForWriteType ==
  ASSUME MeasureTypeOK, NEW x \in Syncs, RenewForWrite(x)
  PROVE  MeasureTypeOK'
BY MeasureAssumption DEF MeasureTypeOK, RenewForWrite, SyncGoes, SyncLocals

LEMMA MarkFailureType ==
  ASSUME MeasureTypeOK, NEW x \in Syncs, MarkFailure(x)
  PROVE  MeasureTypeOK'
BY MeasureAssumption, ZenonT(60) DEF MeasureTypeOK, MarkFailure, SyncGoes, SyncLocals, ChannelRows

LEMMA SyncThrowsType ==
  ASSUME MeasureTypeOK, NEW x \in Syncs, SyncThrows(x)
  PROVE  MeasureTypeOK'
BY MeasureAssumption DEF MeasureTypeOK, SyncThrows, SyncGoes, SyncLocals

LEMMA EvictSyncType ==
  ASSUME MeasureTypeOK, NEW x \in Syncs, EvictSync(x)
  PROVE  MeasureTypeOK'
BY MeasureAssumption, SMTT(60) DEF MeasureTypeOK, EvictSync, SyncGoes, SyncLocals, Lapse

LEMMA ReadSelectionType ==
  ASSUME MeasureTypeOK, NEW e \in Editors, ReadSelection(e)
  PROVE  MeasureTypeOK'
BY MeasureAssumption DEF MeasureTypeOK, ReadSelection, EditorLocals, ChannelRows

LEMMA EditThrowsType ==
  ASSUME MeasureTypeOK, NEW e \in Editors, EditThrows(e)
  PROVE  MeasureTypeOK'
BY MeasureAssumption DEF MeasureTypeOK, EditThrows, EditorGoes, EditorLocals

LEMMA EvictEditType ==
  ASSUME MeasureTypeOK, NEW e \in Editors, EvictEdit(e)
  PROVE  MeasureTypeOK'
BY MeasureAssumption DEF MeasureTypeOK, EvictEdit, EditorGoes, EditorLocals, Lapse

LEMMA ReadForApprovalType ==
  ASSUME MeasureTypeOK, NEW c \in Clerks, ReadForApproval(c)
  PROVE  MeasureTypeOK'
BY MeasureAssumption DEF MeasureTypeOK, ReadForApproval, ChannelRows, ClerkLocals

LEMMA ReviewSampleType ==
  ASSUME MeasureTypeOK, NEW c \in Clerks, ReviewSample(c)
  PROVE  MeasureTypeOK'
BY MeasureAssumption DEF MeasureTypeOK, ReviewSample, ClerkGoes, ClerkLocals

LEMMA ApproveMeasurementsType ==
  ASSUME MeasureTypeOK, NEW c \in Clerks, ApproveMeasurements(c)
  PROVE  MeasureTypeOK'
BY MeasureAssumption DEF MeasureTypeOK, ApproveMeasurements, ClerkGoes, ClerkLocals,
   ChannelRows

LEMMA ReadForExclusionType ==
  ASSUME MeasureTypeOK, NEW c \in Clerks, ReadForExclusion(c)
  PROVE  MeasureTypeOK'
BY MeasureAssumption DEF MeasureTypeOK, ReadForExclusion, ClerkLocals, ChannelRows

LEMMA ExcludeMeasurementsType ==
  ASSUME MeasureTypeOK, NEW c \in Clerks, ExcludeMeasurements(c)
  PROVE  MeasureTypeOK'
BY MeasureAssumption DEF MeasureTypeOK, ExcludeMeasurements, ClerkGoes, ClerkLocals,
   ChannelRows, Maybe

-----------------------------------------------------------------------------
(* Every step preserves the invariant.                                     *)

LEMMA SyncKeepsInv ==
  ASSUME MeasureInv, NEW x \in Syncs, SyncStep(x)
  PROVE  MeasureInv'
<1>0. MeasureTypeOK /\ MeasureTypeOK'
  <2>1. MeasureTypeOK BY DEF MeasureInv
  <2> QED BY <2>1, ReadChannelType, LeaseForSyncType, BeginRunType, FetchMeasurementsType,
             RenewForWriteType, PersistBatchType, CompleteRunType, PublishRunType, FailRunType,
             MarkFailureType, SyncThrowsType, ReleaseSyncType, EvictSyncType DEF SyncStep
<1>1. CASE ReadChannel(x)
  BY <1>0, <1>1, SyncReadsStep
<1>2. CASE LeaseForSync(x)
  <2>0. syncJob[x].pc = "read"
    BY <1>2 DEF LeaseForSync
  <2>1. CASE SyncGoes(x, "ended") /\ UNCHANGED << channel, lapses >>
    <3>1. ModesKept
      BY <1>2 DEF LeaseForSync, ModesKept
    <3> QED BY <1>0, <1>2, <2>0, <2>1, <3>1, SyncGoesStep DEF LeaseForSync
  <2>2. CASE Leasable /\ channel' = Leased(x) /\ SyncGoes(x, "leased")
    BY <1>0, <1>2, <2>0, <2>2, SyncLeasesStep DEF LeaseForSync
  <2> QED BY <1>2, <2>1, <2>2 DEF LeaseForSync
<1>3. CASE BeginRun(x)
  <2>0. syncJob[x].pc = "leased"
    BY <1>3 DEF BeginRun
  <2>1. CASE SyncGoes(x, "failed") /\ UNCHANGED syncRun
    <3>1. ModesKept
      BY <2>1 DEF ModesKept
    <3> QED BY <1>0, <1>3, <2>0, <2>1, <3>1, SyncGoesStep DEF BeginRun
  <2>2. CASE syncJob' = [syncJob EXCEPT ![x].pc = "begun", ![x].from = chosen]
    <3>1. syncJob'[x].pc = "begun"
      BY <1>0, <2>2 DEF MeasureTypeOK, SyncLocals
    <3> QED BY <1>0, <1>3, <3>1, RunBeginsStep
  <2> QED BY <1>3, <2>1, <2>2 DEF BeginRun
<1>4. CASE FetchMeasurements(x)
  <2>0. syncJob[x].pc = "begun" /\ ModesKept
    BY <1>0, <1>4 DEF FetchMeasurements, ModesKept, MeasureTypeOK, SyncRuns
  <2>1. CASE SyncGoes(x, "failed")
    BY <1>0, <1>4, <2>0, <2>1, SyncGoesStep DEF FetchMeasurements, Sampling
  <2>2. CASE ~SyncGoes(x, "failed")
    <3>1. syncJob'[x].pc = "fetched"
      BY <1>0, <1>4, <2>2 DEF FetchMeasurements, MeasureTypeOK, SyncLocals
    <3> QED BY <1>0, <1>4, <3>1, FetchesStep
  <2> QED BY <2>1, <2>2
<1>5. CASE RenewForWrite(x)
  <2>1. /\ syncJob[x].pc = "fetched" /\ ModesKept
        /\ SyncGoes(x, "writing") \/ SyncGoes(x, "failed")
    BY <1>5 DEF RenewForWrite, ModesKept
  <2> QED BY <1>0, <1>5, <2>1, SyncGoesStep DEF RenewForWrite, Sampling
<1>6. CASE PersistBatch(x)
  BY <1>0, <1>6, PersistsStep
<1>7. CASE CompleteRun(x)
  <2>1. ModesKept
    BY <1>0, <1>7 DEF CompleteRun, ModesKept, MeasureTypeOK, SyncRuns
  <2> QED BY <1>0, <1>7, <2>1, SyncGoesStep DEF CompleteRun
<1>8. CASE PublishRun(x)
  <2>1. CASE MayPublishRun(x)
    BY <1>0, <1>8, <2>1, PublishesStep
  <2>2. CASE ~MayPublishRun(x)
    <3>1. syncJob[x].pc = "completed" /\ SyncGoes(x, "failed") /\ ModesKept
      BY <1>8, <2>2 DEF PublishRun, ModesKept
    <3> QED BY <1>0, <1>8, <2>2, <3>1, SyncGoesStep DEF PublishRun, Sampling
  <2> QED BY <2>1, <2>2
<1>9. CASE FailRun(x)
  <2>1. ModesKept
    BY <1>0, <1>9 DEF FailRun, ModesKept, MeasureTypeOK, SyncRuns
  <2> QED BY <1>0, <1>9, <2>1, SyncGoesStep DEF FailRun
<1>10. CASE MarkFailure(x)
  BY <1>0, <1>10, NotesFailureStep
<1>11. CASE SyncThrows(x)
  <2>1. syncJob[x].pc \in Sampling \cup {"leased"} /\ ModesKept
    BY <1>11 DEF SyncThrows, ModesKept, Sampling
  <2> QED BY <1>0, <1>11, <2>1, SyncGoesStep DEF SyncThrows
<1>12. CASE ReleaseSync(x)
  <2>1. CASE channel.owner = x
    BY <1>0, <1>12, <2>1, SyncReleasesStep
  <2>2. CASE channel.owner # x
    <3>1. UNCHANGED channel /\ ModesKept
      BY <1>12, <2>2 DEF ReleaseSync, Unlease, ModesKept
    <3> QED BY <1>0, <1>12, <2>2, <3>1, SyncGoesStep DEF ReleaseSync
  <2> QED BY <2>1, <2>2
<1>13. CASE EvictSync(x)
  <2>1. /\ syncJob[x].pc \notin {"idle", "read", "ended", "dead"} /\ lapses' = lapses + 1
        /\ ModesKept
    BY <1>13 DEF EvictSync, Lapse, ModesKept
  <2>2. CASE SyncGoes(x, "dead")
    BY <1>0, <1>13, <2>1, <2>2, SyncGoesStep DEF EvictSync
  <2>3. CASE syncJob[x].pc \in {"failed", "half"} /\ SyncGoes(x, "releasing")
    BY <1>0, <1>13, <2>1, <2>3, SyncGoesStep DEF EvictSync
  <2> QED BY <1>13, <2>2, <2>3 DEF EvictSync
<1> QED BY <1>1, <1>2, <1>3, <1>4, <1>5, <1>6, <1>7, <1>8, <1>9, <1>10, <1>11, <1>12, <1>13
        DEF SyncStep

LEMMA EditKeepsInv ==
  ASSUME MeasureInv, NEW e \in Editors, EditStep(e)
  PROVE  MeasureInv'
<1>0. MeasureTypeOK /\ MeasureTypeOK'
  <2>1. MeasureTypeOK BY DEF MeasureInv
  <2> QED BY <2>1, ReadSelectionType, LeaseForEditType, ReplaceSelectionType, AuthorizeAgainType,
             EditThrowsType, ReleaseEditType, EvictEditType DEF EditStep
<1>1. CASE ReadSelection(e)
  BY <1>0, <1>1, EditReadsStep
<1>2. CASE LeaseForEdit(e)
  <2>0. editor[e].pc = "read"
    BY <1>2 DEF LeaseForEdit
  <2>1. CASE EditorGoes(e, "ended") /\ UNCHANGED << channel, lapses >>
    BY <1>0, <1>2, <2>0, <2>1, EditGoesStep DEF LeaseForEdit
  <2>2. CASE Leasable /\ channel' = Leased(e) /\ EditorGoes(e, "leased")
    BY <1>0, <1>2, <2>0, <2>2, EditLeasesStep DEF LeaseForEdit
  <2> QED BY <1>2, <2>1, <2>2 DEF LeaseForEdit
<1>3. CASE ReplaceSelection(e)
  <2>1. CASE Replaceable(e)
    BY <1>0, <1>3, <2>1, ReplacesStep
  <2>2. CASE ~Replaceable(e)
    BY <1>0, <1>3, <2>2, EditGoesStep DEF ReplaceSelection
  <2> QED BY <2>1, <2>2
<1>4. CASE AuthorizeAgain(e)
  <2>1. CASE channel.owner = e
    BY <1>0, <1>4, <2>1, AuthorizesStep
  <2>2. CASE channel.owner # e
    BY <1>0, <1>4, <2>2, EditGoesStep DEF AuthorizeAgain
  <2> QED BY <2>1, <2>2
<1>5. CASE EditThrows(e)
  BY <1>0, <1>5, EditGoesStep DEF EditThrows
<1>6. CASE ReleaseEdit(e)
  <2>1. CASE channel.owner = e
    BY <1>0, <1>6, <2>1, EditReleasesStep
  <2>2. CASE channel.owner # e
    BY <1>0, <1>6, <2>2, EditGoesStep DEF ReleaseEdit, Unlease
  <2> QED BY <2>1, <2>2
<1>7. CASE EvictEdit(e)
  BY <1>0, <1>7, EditGoesStep DEF EvictEdit, Lapse
<1> QED BY <1>1, <1>2, <1>3, <1>4, <1>5, <1>6, <1>7 DEF EditStep

LEMMA ClerkKeepsInv ==
  ASSUME MeasureInv, NEW c \in Clerks, ClerkStep(c)
  PROVE  MeasureInv'
<1>0. MeasureTypeOK /\ MeasureTypeOK'
  <2>1. MeasureTypeOK BY DEF MeasureInv
  <2> QED BY <2>1, ReadForApprovalType, ReviewSampleType, ApproveMeasurementsType,
             ReadForExclusionType, ExcludeMeasurementsType DEF ClerkStep
<1>1. CASE ReadForApproval(c)
  BY <1>0, <1>1, ReviewBeginsStep
<1>2. CASE ReviewSample(c)
  <2>1. CASE ClerkGoes(c, "ended")
    BY <1>0, <1>2, <2>1, ClerkEndsStep DEF ReviewSample
  <2>2. CASE ~ClerkGoes(c, "ended")
    <3>1. ClerkGoes(c, "reviewed")
      BY <1>2, <2>2 DEF ReviewSample
    <3>2. clerk'[c].pc = "reviewed"
      BY <1>0, <3>1 DEF ClerkGoes, MeasureTypeOK, ClerkLocals
    <3> QED BY <1>0, <1>2, <3>2, ReviewsStep
  <2> QED BY <2>1, <2>2
<1>3. CASE ApproveMeasurements(c)
  <2>1. CASE Approvable(c)
    BY <1>0, <1>3, <2>1, ApprovesStep
  <2>2. CASE ~Approvable(c)
    BY <1>0, <1>3, <2>2, ClerkEndsStep DEF ApproveMeasurements
  <2> QED BY <2>1, <2>2
<1>4. CASE ReadForExclusion(c)
  BY <1>0, <1>4, ExclusionBeginsStep
<1>5. CASE ExcludeMeasurements(c)
  <2>1. CASE AsRead(c) /\ Leasable
    BY <1>0, <1>5, <2>1, ExcludesStep
  <2>2. CASE ~(AsRead(c) /\ Leasable)
    BY <1>0, <1>5, <2>2, ClerkEndsStep DEF ExcludeMeasurements
  <2> QED BY <2>1, <2>2
<1> QED BY <1>1, <1>2, <1>3, <1>4, <1>5 DEF ClerkStep

LEMMA MeasureInit_Inv == MeasureInit => MeasureInv
<1> SUFFICES ASSUME MeasureInit PROVE MeasureInv
  OBVIOUS
<1>1. /\ channel.status = "connected" /\ channel.promotion = "staging" /\ ~channel.live
      /\ channel.lastSync = NoSync /\ channel.owner = NoSync /\ channel.term = 0
      /\ \A x \in Syncs : syncJob[x] = NewSync
      /\ \A e \in Editors : editor[e].pc = "idle"
      /\ \A c \in Clerks : clerk[c].pc = "idle" /\ clerk[c].term = 0
      /\ \A r \in Resources : measured[r] = NoSync
      /\ NoSync \notin Syncs \cup Editors
  BY MeasureAssumption DEF MeasureInit
<1>2. MeasureTypeOK
  <2>1. channel \in ChannelRows
    BY DEF MeasureInit, ChannelRows, Edition, Maybe
  <2>2. chosen \in Selections /\ measured \in [Resources -> Maybe] /\ reviewed \in Maybe
    BY DEF MeasureInit, Selections, Edition, Maybe
  <2>3. syncRun \in [Syncs -> SyncRuns]
    BY DEF MeasureInit, NoSyncRun, SyncRuns, Edition
  <2>4. syncJob \in [Syncs -> SyncLocals]
    BY DEF MeasureInit, NewSync, NoneChosen, SyncLocals, Selections, Edition
  <2>5. editor \in [Editors -> EditorLocals]
    BY DEF MeasureInit, EditorLocals, Edition
  <2>6. clerk \in [Clerks -> ClerkLocals]
    BY DEF MeasureInit, ClerkLocals, Edition, Maybe
  <2>7. lapses \in 0..MaxLapses
    BY MeasureAssumption DEF MeasureInit
  <2> QED BY <2>1, <2>2, <2>3, <2>4, <2>5, <2>6, <2>7 DEF MeasureTypeOK
<1>3. MeasuredAsChosen /\ DisconnectedKeepsNothing
  BY <1>1 DEF MeasuredAsChosen, DisconnectedKeepsNothing
<1>4. SyncsKnown /\ LeasesHeld /\ ClerksKnown
  BY <1>1 DEF SyncsKnown, LeasesHeld, ClerksKnown, NewSync, Sampling
<1>5. LeasesWhole /\ RevokedStays /\ ModesStand
  BY <1>1 DEF LeasesWhole, RevokedStays, ModesStand, NewSync, Leasing, Sampling
<1>6. SamplesAlone /\ LastSampleKept /\ ReviewsStand /\ ApprovedAsReviewed
  BY <1>1 DEF SamplesAlone, LastSampleKept, ReviewsStand, ApprovedAsReviewed, NewSync
<1> QED BY <1>2, <1>3, <1>4, <1>5, <1>6 DEF MeasureInv, Calm

LEMMA MeasureStep_Inv == MeasureInv /\ [MeasureNext]_measureVars => MeasureInv'
<1> SUFFICES ASSUME MeasureInv, [MeasureNext]_measureVars PROVE MeasureInv'
  OBVIOUS
<1>1. CASE DisconnectChannel
  <2>1. MeasureTypeOK /\ MeasureTypeOK'
    BY <1>1, DisconnectChannelType DEF MeasureInv
  <2> QED BY <1>1, <2>1, DisconnectsStep
<1>2. CASE ChannelLeaseEnds
  <2>1. MeasureTypeOK /\ MeasureTypeOK'
    BY <1>2, ChannelLeaseEndsType DEF MeasureInv
  <2> QED BY <1>2, <2>1, ChannelLeaseEndsStep
<1>3. CASE UNCHANGED measureVars
  BY <1>3 DEF measureVars, MeasureInv, MeasureTypeOK, MeasuredAsChosen,
     DisconnectedKeepsNothing, SyncsKnown, LeasesHeld, ClerksKnown, Calm, LeasesWhole,
     RevokedStays, ModesStand, ModeStands, SamplesAlone, OneSample, LastSampleKept, Writes,
     ReviewsStand, ApprovedAsReviewed
<1> QED BY <1>1, <1>2, <1>3, SyncKeepsInv, EditKeepsInv, ClerkKeepsInv DEF MeasureNext

LEMMA MeasureInvHolds == MeasureSpec => []MeasureInv
BY MeasureInit_Inv, MeasureStep_Inv, PTL DEF MeasureSpec

-----------------------------------------------------------------------------
(* The theorem of MarketingMeasurements.                                   *)

\* Whatever is selected, sampled, refreshed, approved, excluded, authorized again
\* and disconnected at once: what is measured is of the present selection, a
\* disconnected account keeps nothing, no lease outlives its request, and as long
\* as no request was evicted, stalled or overtaken between its reading and its
\* lease, approved measurements are of the sample reviewed, or of a whole refresh.
THEOREM MeasurementsStand == MeasureSpec => []MeasurementsAreSound
<1>1. MeasureInv => NoMeasureLeaseLeft
  BY DEF MeasureInv, LeasesHeld, NoMeasureLeaseLeft
<1>2. MeasureInv => ApprovedAsReviewedInTime
  BY DEF MeasureInv, Calm, ApprovedAsReviewedInTime
<1>3. MeasureInv => MeasurementsAreSound
  BY <1>1, <1>2 DEF MeasureInv, MeasurementsAreSound
<1> QED BY <1>3, MeasureInvHolds, PTL

-----------------------------------------------------------------------------
(* Sources of a report (ReportSources).                                    *)

ChoiceShapes == [connection : Connections \cup {Nowhere}, version : Nat]
SeenShapes == [pc : {"seen"}, store : Locations, channel : Channels, version : Nat]
SaveShapes == [pc : {"save"}, store : Locations, channel : Channels, version : Nat,
               connection : Connections]
MakerShapes == {NotBegun} \cup SeenShapes \cup SaveShapes \cup [pc : {"saved", "refused"}]

\* Whoever is about to save a choice has a source of its channel for it.
MakersHold ==
    /\ admin \in [Admins -> MakerShapes]
    /\ \A a \in Admins : admin[a].pc = "save" => ChannelOf[admin[a].connection] = admin[a].channel

ChoicesTyped == choice \in [Locations -> [Channels -> ChoiceShapes]]
ReportsTyped == report = [r \in Reports |-> report[r]]

SourceInv == SourceTypeOK /\ ChoicesTyped /\ MakersHold /\ ReportsTyped /\ CountedOnce

\* A connection that a report counts is one of the store and channel it is counted for.
LEMMA ResolvedIsCandidate ==
  ASSUME NEW w, NEW l, NEW ch, Resolved(w, l, ch) \in Connections,
         Resolved(w, l, ch) # "conflict"
  PROVE  Resolved(w, l, ch) \in Candidates(w, l, ch)
<1> DEFINE all == Candidates(w, l, ch)
           usable == {c \in all : Usable(w, c)}
           preferred == w.choices[l][ch].connection
           gone == \A c \in all \cap {preferred} : w.sources[c].status # "connected"
           open == \E c \in all : c \in w.facts /\ c \notin usable
           only == CHOOSE c \in usable : TRUE
<1>1. Resolved(w, l, ch) =
        IF preferred # Nowhere
        THEN IF preferred \in usable THEN preferred
             ELSE IF gone /\ usable = {} THEN Nowhere
             ELSE "conflict"
        ELSE IF open THEN "conflict"
        ELSE IF usable = {} THEN Nowhere
        ELSE IF Cardinality(usable) = 1 THEN only
        ELSE "conflict"
  BY DEF Resolved
<1>2. usable # {} => only \in usable OBVIOUS
<1>3. usable \subseteq all OBVIOUS
<1>4. Nowhere \notin Connections BY SourceAssumption
<1> HIDE DEF all, usable, preferred, gone, open, only
<1>5. Resolved(w, l, ch) \in usable BY <1>1, <1>2, <1>4
<1> QED BY <1>3, <1>5 DEF all

\* What a report adds up when it has read everything.
LEMMA RowsCountOnce ==
  ASSUME NEW r \in Reports, ReportsTyped, ReadRows(r)
  PROVE  /\ \A c, d \in report'[r].rows :
              /\ report'[r].sources[c].store = report'[r].sources[d].store
              /\ ChannelOf[c] = ChannelOf[d]
              => c = d
         /\ \A c \in report'[r].rows : report'[r].sources[c].store \notin report'[r].manual
<1> DEFINE w == report[r]
           open == \E s \in Answers(w) : s[3] = "conflict"
           rows == IF open THEN {}
                   ELSE {s[3] : s \in {t \in Selected(w) : Trusted(source[t[3]])
                                                           /\ t[3] \in facts}}
           left == IF open THEN {} ELSE manual \ {s[1] : s \in Selected(w)}
<1>1. report'[r] = [pc |-> "done", sources |-> w.sources, rows |-> rows, manual |-> left]
  <2>1. report' = [report EXCEPT ![r] = [pc |-> "done", sources |-> w.sources, rows |-> rows,
                                         manual |-> left]]
    BY DEF ReadRows, Got
  <2> HIDE DEF w, open, rows, left
  <2> QED BY <2>1 DEF ReportsTyped
<1>2. ASSUME NEW c \in rows
      PROVE  \E l \in Locations, ch \in Channels :
                /\ c = Resolved(w, l, ch) /\ w.sources[c].store = l /\ ChannelOf[c] = ch
                /\ l \notin left
  <2>1. ~open BY <1>2
  <2>2. PICK s \in Selected(w) : c = s[3] BY <1>2, <2>1
  <2>3. s \in Answers(w) /\ s[3] \in Connections BY <2>2 DEF Selected
  <2>4. PICK l \in Locations, ch \in Channels : s = << l, ch, Resolved(w, l, ch) >>
    BY <2>3 DEF Answers
  <2>5. c = Resolved(w, l, ch) /\ s[1] = l BY <2>2, <2>4
  <2>6. c # "conflict" BY <2>1, <2>2, <2>3
  <2>7. c \in Candidates(w, l, ch) BY <2>2, <2>3, <2>5, <2>6, ResolvedIsCandidate
  <2>8. l \notin left BY <2>1, <2>2, <2>5
  <2> QED BY <2>5, <2>7, <2>8 DEF Candidates
<1>3. ASSUME NEW c \in rows, NEW d \in rows, w.sources[c].store = w.sources[d].store,
             ChannelOf[c] = ChannelOf[d]
      PROVE  c = d
  <2> HIDE DEF w, rows, left
  <2>1. PICK l \in Locations, ch \in Channels :
           c = Resolved(w, l, ch) /\ w.sources[c].store = l /\ ChannelOf[c] = ch
    BY <1>2
  <2>2. PICK k \in Locations, dh \in Channels :
           d = Resolved(w, k, dh) /\ w.sources[d].store = k /\ ChannelOf[d] = dh
    BY <1>2
  <2> QED BY <1>3, <2>1, <2>2
<1>4. \A c \in rows : w.sources[c].store \notin left
  <2> HIDE DEF w, rows, left
  <2> QED BY <1>2
<1> HIDE DEF w, open, rows, left
<1> QED BY <1>1, <1>3, <1>4

\* Reports that others count as they are.
LEMMA CountedSame == ASSUME CountedOnce, report' = report PROVE CountedOnce'
BY DEF CountedOnce

LEMMA SourceInitInv == ASSUME SourceInit PROVE SourceInv
<1>1. PICK stores \in [Connections -> Locations \cup {Nowhere}] :
         source = [c \in Connections |-> [status |-> "connected", approved |-> FALSE,
                                          leased |-> FALSE, store |-> stores[c]]]
  BY DEF SourceInit
<1>2. source \in [Connections -> [status : {"connected", "revoked"}, approved : BOOLEAN,
                                  leased : BOOLEAN, store : Locations \cup {Nowhere}]]
  BY <1>1
<1>3. \A l \in Locations, ch \in Channels : choice[l][ch] = NoChoice BY DEF SourceInit
<1>4. SourceTypeOK BY <1>2, <1>3 DEF SourceInit, SourceTypeOK, NoChoice
<1>5. ChoicesTyped BY DEF SourceInit, ChoicesTyped, NoChoice, ChoiceShapes
<1>6. MakersHold BY DEF SourceInit, MakersHold, NotBegun, MakerShapes
<1>7. ReportsTyped /\ CountedOnce BY DEF SourceInit, ReportsTyped, CountedOnce, NotBegun
<1> QED BY <1>4, <1>5, <1>6, <1>7 DEF SourceInv

\* Imports and settings change sources and facts only.
SourcesTyped ==
    /\ source \in [Connections -> [status : {"connected", "revoked"}, approved : BOOLEAN,
                                   leased : BOOLEAN, store : Locations \cup {Nowhere}]]
    /\ facts \subseteq Connections

LEMMA ChangeKeepsRest ==
  ASSUME SourceInv, Changed, SourcesTyped' PROVE SourceInv'
<1>1. UNCHANGED << manual, choice, admin, report >> BY DEF Changed
<1>2. SourceTypeOK' BY <1>1 DEF SourceInv, SourceTypeOK, SourcesTyped
<1>3. CountedOnce' BY <1>1, CountedSame DEF SourceInv
<1> QED BY <1>1, <1>2, <1>3 DEF SourceInv, ChoicesTyped, MakersHold, ReportsTyped

LEMMA SourceChanges ==
  ASSUME SourceInv, NEW c \in Connections,
         BeginImport(c) \/ EndImport(c) \/ Remap(c) \/ Disconnect(c)
  PROVE  SourceInv'
<1>1. SourcesTyped BY DEF SourceInv, SourceTypeOK, SourcesTyped
<1>2. CASE BeginImport(c)
  <2>1. SourcesTyped' BY <1>1, <1>2 DEF BeginImport, SourcesTyped
  <2> QED BY <1>2, <2>1, ChangeKeepsRest DEF BeginImport
<1>3. CASE EndImport(c)
  <2>1. PICK published \in BOOLEAN :
          /\ source' = [source EXCEPT ![c].leased = FALSE, ![c].approved = published]
          /\ facts' = IF published THEN facts \cup {c} ELSE facts
    BY <1>3 DEF EndImport
  <2>2. SourcesTyped' BY <1>1, <2>1 DEF SourcesTyped
  <2> QED BY <1>3, <2>2, ChangeKeepsRest DEF EndImport
<1>4. CASE Remap(c)
  <2>1. PICK l \in Locations \cup {Nowhere} : source' = [source EXCEPT ![c].store = l]
    BY <1>4 DEF Remap
  <2>2. SourcesTyped' BY <1>1, <1>4, <2>1 DEF SourcesTyped, Remap
  <2> QED BY <1>4, <2>2, ChangeKeepsRest DEF Remap
<1>5. CASE Disconnect(c)
  <2>1. SourcesTyped' BY <1>1, <1>5, ZenonT(60) DEF Disconnect, SourcesTyped
  <2> QED BY <1>5, <2>1, ChangeKeepsRest DEF Disconnect
<1> QED BY <1>2, <1>3, <1>4, <1>5

\* A choice is in the making, and nothing else changes.
LEMMA MakerStep ==
  ASSUME SourceInv, NEW a \in Admins, NEW m \in MakerShapes,
         admin' = [admin EXCEPT ![a] = m],
         m.pc = "save" => ChannelOf[m.connection] = m.channel,
         UNCHANGED << source, facts, manual, choice, report, changes >>
  PROVE  SourceInv'
<1>1. SourceTypeOK' BY DEF SourceInv, SourceTypeOK
<1>2. MakersHold' BY DEF SourceInv, MakersHold
<1>3. CountedOnce' BY CountedSame DEF SourceInv
<1> QED BY <1>1, <1>2, <1>3 DEF SourceInv, ChoicesTyped, ReportsTyped

LEMMA ChoicesAreSeen ==
  ASSUME SourceInv, NEW a \in Admins, NEW l \in Locations, NEW ch \in Channels,
         SeeChoices(a, l, ch)
  PROVE  SourceInv'
<1> DEFINE m == [pc |-> "seen", store |-> l, channel |-> ch, version |-> choice[l][ch].version]
<1>1. choice[l][ch].version \in Nat BY DEF SourceInv, ChoicesTyped, ChoiceShapes
<1>2. m \in MakerShapes /\ m.pc # "save" BY <1>1 DEF MakerShapes, SeenShapes
<1>3. /\ admin' = [admin EXCEPT ![a] = m]
      /\ UNCHANGED << source, facts, manual, choice, report, changes >>
  BY DEF SeeChoices
<1> HIDE DEF m
<1> QED BY <1>2, <1>3, MakerStep

LEMMA EligibleIsRead ==
  ASSUME SourceInv, NEW a \in Admins, NEW c \in Connections, ReadEligible(a, c)
  PROVE  SourceInv'
<1> DEFINE m == [pc |-> "save", store |-> admin[a].store, channel |-> admin[a].channel,
                 version |-> admin[a].version, connection |-> c]
<1>1. admin[a].pc = "seen" /\ ChannelOf[c] = admin[a].channel BY DEF ReadEligible
<1>2. admin[a] \in SeenShapes
  BY <1>1 DEF SourceInv, MakersHold, MakerShapes, SaveShapes, NotBegun
<1>3. m \in MakerShapes /\ (m.pc = "save" => ChannelOf[m.connection] = m.channel)
  BY <1>1, <1>2 DEF MakerShapes, SeenShapes, SaveShapes
<1>4. /\ admin' = [admin EXCEPT ![a] = m]
      /\ UNCHANGED << source, facts, manual, choice, report, changes >>
  BY DEF ReadEligible
<1> HIDE DEF m
<1> QED BY <1>3, <1>4, MakerStep

\* What saving a choice writes.
LEMMA SavedChoice ==
  ASSUME SourceInv, NEW a \in Admins, SaveChoice(a)
  PROVE  /\ admin[a] \in SaveShapes
         /\ ChannelOf[admin[a].connection] = admin[a].channel
         /\ \/ choice' = choice
            \/ /\ Eligible(admin[a].connection, admin[a].store)
               /\ choice[admin[a].store][admin[a].channel].version = admin[a].version
               /\ choice' = [choice EXCEPT ![admin[a].store][admin[a].channel] =
                                [connection |-> admin[a].connection,
                                 version |-> admin[a].version + 1]]
<1>1. admin[a].pc = "save" BY DEF SaveChoice
<1>2. admin[a] \in SaveShapes
  BY <1>1 DEF SourceInv, MakersHold, MakerShapes, SeenShapes, NotBegun
<1> QED BY <1>1, <1>2 DEF SaveChoice, SourceInv, MakersHold

LEMMA ChoiceIsSaved ==
  ASSUME SourceInv, NEW a \in Admins, SaveChoice(a) PROVE SourceInv'
<1> DEFINE m == admin[a]
           new == [connection |-> m.connection, version |-> m.version + 1]
<1>1. m \in SaveShapes /\ ChannelOf[m.connection] = m.channel BY SavedChoice
<1>2. choice' = choice \/ choice' = [choice EXCEPT ![m.store][m.channel] = new]
  BY SavedChoice
<1>3. UNCHANGED << source, facts, manual, report, changes >> BY DEF SaveChoice
<1>4. new \in ChoiceShapes /\ new.connection # Nowhere /\ new.version # 0
      /\ ChannelOf[new.connection] = m.channel
  BY <1>1, SourceAssumption DEF SaveShapes, ChoiceShapes
<1>5. m.store \in Locations /\ m.channel \in Channels BY <1>1 DEF SaveShapes
<1>6. PICK e \in {"saved", "refused"} : admin' = [admin EXCEPT ![a] = [pc |-> e]]
  BY DEF SaveChoice
<1> HIDE DEF m, new
<1>7. ChoicesTyped' BY <1>2, <1>4, <1>5 DEF SourceInv, ChoicesTyped
<1>8. SourceTypeOK'
  <2>1. ASSUME NEW l \in Locations, NEW ch \in Channels
        PROVE  /\ choice'[l][ch].connection \in Connections \cup {Nowhere}
               /\ choice'[l][ch].connection # Nowhere => ChannelOf[choice'[l][ch].connection] = ch
               /\ choice'[l][ch].version = 0 <=> choice'[l][ch].connection = Nowhere
    <3>1. choice'[l][ch] = choice[l][ch] \/ (choice'[l][ch] = new /\ ch = m.channel)
      BY <1>2, <1>5 DEF SourceInv, ChoicesTyped
    <3>2. CASE choice'[l][ch] = choice[l][ch] BY <3>2 DEF SourceInv, SourceTypeOK
    <3>3. CASE choice'[l][ch] = new /\ ch = m.channel BY <1>4, <3>3 DEF ChoiceShapes
    <3> QED BY <3>1, <3>2, <3>3
  <2> QED BY <1>3, <2>1 DEF SourceInv, SourceTypeOK
<1>9. MakersHold'
  <2>1. [pc |-> e] \in MakerShapes BY DEF MakerShapes
  <2> QED BY <1>6, <2>1 DEF SourceInv, MakersHold
<1>10. CountedOnce' /\ ReportsTyped' BY <1>3, CountedSame DEF SourceInv, ReportsTyped
<1> QED BY <1>7, <1>8, <1>9, <1>10 DEF SourceInv

\* A report reads, and nothing else changes.
LEMMA ReportStep ==
  ASSUME SourceInv, NEW r \in Reports, NEW w, Got(r, w),
         w.pc = "done" =>
            /\ \A c, d \in w.rows : /\ w.sources[c].store = w.sources[d].store
                                    /\ ChannelOf[c] = ChannelOf[d]
                                    => c = d
            /\ \A c \in w.rows : w.sources[c].store \notin w.manual
  PROVE  SourceInv'
<1>1. /\ report' = [report EXCEPT ![r] = w]
      /\ UNCHANGED << source, facts, manual, choice, admin, changes >>
  BY DEF Got
<1>2. SourceTypeOK' /\ ChoicesTyped' /\ MakersHold'
  BY <1>1 DEF SourceInv, SourceTypeOK, ChoicesTyped, MakersHold
<1>3. /\ ReportsTyped' /\ report'[r] = w
      /\ \A q \in Reports : q # r => report'[q] = report[q]
  BY <1>1 DEF SourceInv, ReportsTyped
<1>4. CountedOnce'
  <2> SUFFICES ASSUME NEW q \in Reports, report'[q].pc = "done"
               PROVE  /\ \A c, d \in report'[q].rows :
                            /\ report'[q].sources[c].store = report'[q].sources[d].store
                            /\ ChannelOf[c] = ChannelOf[d]
                            => c = d
                      /\ \A c \in report'[q].rows :
                            report'[q].sources[c].store \notin report'[q].manual
    BY DEF CountedOnce
  <2>1. CASE q = r BY <1>3, <2>1
  <2>2. CASE q # r
    <3>1. report'[q] = report[q] BY <1>3, <2>2
    <3> QED BY <3>1 DEF SourceInv, CountedOnce
  <2> QED BY <2>1, <2>2
<1> QED BY <1>2, <1>3, <1>4 DEF SourceInv

LEMMA ReportReads ==
  ASSUME SourceInv, NEW r \in Reports,
         ReadMappings(r) \/ ReadChoices(r) \/ ReadFacts(r) \/ ReadRows(r)
  PROVE  SourceInv'
<1>1. CASE ReadMappings(r) BY <1>1, ReportStep DEF ReadMappings
<1>2. CASE ReadChoices(r) BY <1>2, ReportStep DEF ReadChoices
<1>3. CASE ReadFacts(r) BY <1>3, ReportStep DEF ReadFacts
<1>4. CASE ReadRows(r)
  <2>1. PICK w : Got(r, w) BY <1>4 DEF ReadRows
  <2>2. report'[r] = w BY <2>1 DEF Got, SourceInv, ReportsTyped
  <2>3. /\ \A c, d \in w.rows : /\ w.sources[c].store = w.sources[d].store
                                /\ ChannelOf[c] = ChannelOf[d]
                                => c = d
        /\ \A c \in w.rows : w.sources[c].store \notin w.manual
    BY <1>4, <2>2, RowsCountOnce DEF SourceInv
  <2> QED BY <2>1, <2>3, ReportStep
<1> QED BY <1>1, <1>2, <1>3, <1>4

LEMMA SourceStutters == ASSUME SourceInv, UNCHANGED sourceVars PROVE SourceInv'
<1>1. UNCHANGED << source, facts, manual, choice, admin, report, changes >> BY DEF sourceVars
<1>2. CountedOnce' BY <1>1, CountedSame DEF SourceInv
<1> QED BY <1>1, <1>2 DEF SourceInv, SourceTypeOK, ChoicesTyped, MakersHold, ReportsTyped

LEMMA SourceStepInv == SourceInv /\ [SourceNext]_sourceVars => SourceInv'
<1> SUFFICES ASSUME SourceInv, [SourceNext]_sourceVars PROVE SourceInv' OBVIOUS
<1>1. ASSUME NEW c \in Connections, BeginImport(c) \/ EndImport(c) \/ Remap(c) \/ Disconnect(c)
      PROVE  SourceInv'
  BY <1>1, SourceChanges
<1>2. ASSUME NEW a \in Admins, NEW l \in Locations, NEW ch \in Channels, SeeChoices(a, l, ch)
      PROVE  SourceInv'
  BY <1>2, ChoicesAreSeen
<1>3. ASSUME NEW a \in Admins, NEW c \in Connections, ReadEligible(a, c) PROVE SourceInv'
  BY <1>3, EligibleIsRead
<1>4. ASSUME NEW a \in Admins, SaveChoice(a) PROVE SourceInv' BY <1>4, ChoiceIsSaved
<1>5. ASSUME NEW r \in Reports, ReadMappings(r) \/ ReadChoices(r) \/ ReadFacts(r) \/ ReadRows(r)
      PROVE  SourceInv'
  BY <1>5, ReportReads
<1>6. CASE UNCHANGED sourceVars BY <1>6, SourceStutters
<1> QED BY <1>1, <1>2, <1>3, <1>4, <1>5, <1>6 DEF SourceNext

\* Reports count once (source-authority.ts, daily-sales-scope.ts): whatever imports,
\* settings and owners change between its four reads, a report adds up at most one
\* connection of each store and channel, and no manual summary to it.
THEOREM ReportsCountOnce == SourceSpec => []ReportsAreSound
<1>1. SourceInit => SourceInv BY SourceInitInv
<1>2. SourceInv => ReportsAreSound BY DEF SourceInv, ReportsAreSound
<1> QED BY <1>1, <1>2, SourceStepInv, PTL DEF SourceSpec

\* Choices are informed (POST reports): a choice replaces only the one that its maker
\* was shown, by a source that has something to report at that moment.
THEOREM ChoicesAreInformed == SourceSpec => ChoiceIsInformed
<1>1. SourceInit => SourceInv BY SourceInitInv
<1>2. ASSUME SourceInv, [SourceNext]_sourceVars
      PROVE  Informed
  <2> SUFFICES ASSUME NEW l \in Locations, NEW ch \in Channels,
                      choice'[l][ch] # choice[l][ch]
               PROVE  \E a \in Admins :
                         /\ admin[a].pc = "save" /\ admin[a].version = choice[l][ch].version
                         /\ Eligible(choice'[l][ch].connection, l)
    BY DEF Informed
  <2>1. PICK a \in Admins : SaveChoice(a)
    <3>1. choice' # choice OBVIOUS
    <3> QED BY <1>2, <3>1 DEF SourceNext, sourceVars, BeginImport, EndImport, Remap, Disconnect,
               Changed, SeeChoices, ReadEligible, ReadMappings, ReadChoices, ReadFacts, ReadRows,
               Got
  <2> DEFINE m == admin[a]
             new == [connection |-> m.connection, version |-> m.version + 1]
  <2>2. /\ m \in SaveShapes /\ Eligible(m.connection, m.store)
        /\ choice[m.store][m.channel].version = m.version
        /\ choice' = [choice EXCEPT ![m.store][m.channel] = new]
    BY <1>2, <2>1, SavedChoice
  <2>3. m.pc = "save" /\ m.store \in Locations /\ m.channel \in Channels
    BY <2>2 DEF SaveShapes
  <2>4. new.connection = m.connection OBVIOUS
  <2> HIDE DEF new, m
  <2>5. l = m.store /\ ch = m.channel /\ choice'[l][ch] = new
    BY <1>2, <2>2, <2>3 DEF SourceInv, ChoicesTyped
  <2> QED BY <2>2, <2>3, <2>4, <2>5 DEF m
<1>3. SourceInv /\ [SourceNext]_sourceVars =>
        [Informed]_sourceVars
  BY <1>2
<1> QED BY <1>1, <1>3, SourceStepInv, PTL DEF SourceSpec, ChoiceIsInformed

\* What reports count, and who has decided that it is counted (source-authority.ts,
\* POST reports), for any number of connections, reports, admins and changes.
THEOREM SourcesStand == SourceSpec => SourcesAreSound
<1>1. SourceSpec => []ReportsAreSound BY ReportsCountOnce
<1>2. SourceSpec => [][Informed]_sourceVars BY ChoicesAreInformed DEF ChoiceIsInformed
<1> QED BY <1>1, <1>2, PTL DEF SourcesAreSound

=============================================================================
