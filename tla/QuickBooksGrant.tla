-------------------------- MODULE QuickBooksGrant --------------------------
(***************************************************************************)
(* The QuickBooks companies of workspaces (server/integrations/            *)
(* quickbooks.ts and the routes of integrations/quickbooks): authorizing   *)
(* a company or authorizing it again, refreshing its tokens, removing it.  *)
(*                                                                         *)
(* An authorization inserts a row of its own, so rows and authorizations   *)
(* have the same names.  A callback that finds the company in an older     *)
(* row writes there under a second lease and deletes its own row.          *)
(*                                                                         *)
(* Abstractions.  All authorizations are for one company.  A row's         *)
(* sourceNamespace names the authorization its metadata are of; the app    *)
(* binding, scopes and the company's name are left out.  A token is known  *)
(* by the authorization that got it and the number of refreshes.  Whether  *)
(* Intuit confirms a revocation changes nothing that is kept.              *)
(***************************************************************************)
EXTENDS Naturals, FiniteSets

CONSTANTS Authorizations, \* authorizations of the company, and their rows
          Keepers,        \* requests that refresh or remove
          Workspaces,
          Nobody,         \* no row, no lease owner
          MaxRefreshes,   \* bounds: refreshes of one authorization, and errors,
          MaxGrantFaults  \* evictions and stalls past a lease

ASSUME GrantAssumption ==
    /\ Nobody \notin Authorizations \cup Keepers
    /\ Authorizations \cap Keepers = {}
    /\ MaxRefreshes \in Nat /\ MaxGrantFaults \in Nat

VARIABLES
    home,     \* home[a]: the workspace of an authorization
    accounts, \* accounts[a]: the integration_connections row
    tokens,   \* tokens[a]: the row's secret, or NoToken
    issued,   \* issued[a]: refreshes that Intuit answered with tokens of a
    grant,    \* grant[a]: a callback's step and locals
    keeper,   \* keeper[k]: a request's step and locals
    grantFaults

grantVars == << home, accounts, tokens, issued, grant, keeper, grantFaults >>

Owners == Authorizations \cup Keepers
Tokens == [by : Authorizations, nth : 0..MaxRefreshes]
NoToken == [by |-> Nobody, nth |-> 0]

NoAccount == [status |-> "absent", company |-> FALSE, namespace |-> Nobody,
              owner |-> Nobody, live |-> FALSE]

AccountRows ==
    [status : {"absent", "pending", "connected", "error", "revoked"}, company : BOOLEAN,
     namespace : Authorizations \cup {Nobody}, owner : Owners \cup {Nobody}, live : BOOLEAN]

CallbackStates ==
    [pc : {"idle", "away", "declined", "found", "leased", "checked", "both", "saving", "saved",
           "failed", "half", "marked", "released", "ended", "dead"},
     target : Authorizations \cup {Nobody}, seen : {"none", "pending", "connected", "error"},
     was : Authorizations \cup {Nobody}, own : BOOLEAN, other : BOOLEAN]

KeeperStates ==
    [pc : {"idle", "refresh", "reread", "exchanged", "remove", "removing", "releasing",
           "ended", "dead"},
     row : Authorizations \cup {Nobody}, token : Tokens \cup {NoToken},
     fresh : Tokens \cup {NoToken}, namespace : Authorizations \cup {Nobody},
     leased : BOOLEAN]

GrantTypeOK ==
    /\ home \in [Authorizations -> Workspaces]
    /\ accounts \in [Authorizations -> AccountRows]
    /\ tokens \in [Authorizations -> Tokens \cup {NoToken}]
    /\ issued \in [Authorizations -> 0..MaxRefreshes]
    /\ grant \in [Authorizations -> CallbackStates]
    /\ keeper \in [Keepers -> KeeperStates]
    /\ grantFaults \in 0..MaxGrantFaults

NoGrant == [pc |-> "idle", target |-> Nobody, seen |-> "none", was |-> Nobody,
            own |-> FALSE, other |-> FALSE]
NoWork == [pc |-> "idle", row |-> Nobody, token |-> NoToken, fresh |-> NoToken,
           namespace |-> Nobody, leased |-> FALSE]

GrantInit ==
    /\ home \in [Authorizations -> Workspaces]
    /\ accounts = [a \in Authorizations |-> NoAccount]
    /\ tokens = [a \in Authorizations |-> NoToken]
    /\ issued = [a \in Authorizations |-> 0]
    /\ grant = [a \in Authorizations |-> NoGrant]
    /\ keeper = [k \in Keepers |-> NoWork]
    /\ grantFaults = 0

-----------------------------------------------------------------------------
(* The row's lease, as in connection.ts.                                   *)

Vacant(a) == accounts[a].owner = Nobody \/ ~accounts[a].live
HoldsRow(p, a) == accounts[a].owner = p /\ accounts[a].live

TakeRowLease(p, a) ==
    /\ accounts[a].status # "absent" /\ Vacant(a)
    /\ accounts' = [accounts EXCEPT ![a].owner = p, ![a].live = TRUE]

\* Every acquisition has an owner of its own, so the version adds nothing.
GiveBack(p, a) ==
    accounts' = IF accounts[a].owner = p
               THEN [accounts EXCEPT ![a].owner = Nobody, ![a].live = FALSE]
               ELSE accounts

-----------------------------------------------------------------------------
(* The callback of authorization a.                                        *)

GrantGoes(a, pc) == grant' = [grant EXCEPT ![a].pc = pc]

\* authorize/route.ts.
AuthorizeCompany(a) ==
    /\ grant[a].pc = "idle"
    /\ accounts' = [accounts EXCEPT ![a] = [NoAccount EXCEPT !.status = "pending",
                                                           !.namespace = a]]
    /\ GrantGoes(a, "away")
    /\ UNCHANGED << home, tokens, issued, keeper, grantFaults >>

\* The state is consumed once and the row read; a row that is no longer
\* pending, or whose state was deleted, ends the callback.
NotAvailable(a) ==
    /\ grant[a].pc = "away" /\ accounts[a].status # "pending"
    /\ GrantGoes(a, "ended")
    /\ UNCHANGED << home, accounts, tokens, issued, keeper, grantFaults >>

Declines(a) ==
    /\ grant[a].pc = "away" /\ accounts[a].status = "pending"
    /\ GrantGoes(a, "declined")
    /\ UNCHANGED << home, accounts, tokens, issued, keeper, grantFaults >>

\* Deleting a row deletes its secret.
DropRow(a) ==
    /\ accounts' = [accounts EXCEPT ![a] = NoAccount]
    /\ tokens' = [tokens EXCEPT ![a] = NoToken]

DropDeclined(a) ==
    /\ grant[a].pc = "declined"
    /\ DropRow(a) /\ GrantGoes(a, "ended")
    /\ UNCHANGED << home, issued, keeper, grantFaults >>

OfCompany(b) ==
    accounts[b].company /\ accounts[b].status \in {"connected", "error", "pending"}

\* The code is exchanged, the company verified and looked for in older rows.
\* One that another workspace has ends the attempt.
Exchange(a) ==
    /\ grant[a].pc = "away" /\ accounts[a].status = "pending"
    /\ \/ /\ \A b \in Authorizations : ~OfCompany(b)
          /\ grant' = [grant EXCEPT ![a].pc = "found", ![a].target = a]
       \/ \E b \in Authorizations :
            /\ OfCompany(b) /\ home[b] = home[a]
            /\ grant' = [grant EXCEPT ![a].pc = "found", ![a].target = b,
                            ![a].seen = accounts[b].status, ![a].was = accounts[b].namespace]
       \/ /\ \E b \in Authorizations : OfCompany(b) /\ home[b] # home[a]
          /\ GrantGoes(a, "failed")
    /\ UNCHANGED << home, accounts, tokens, issued, keeper, grantFaults >>

LeaseOwnRow(a) ==
    /\ grant[a].pc = "found"
    /\ \/ TakeRowLease(a, a) /\ grant' = [grant EXCEPT ![a].pc = "leased", ![a].own = TRUE]
       \/ /\ accounts[a].status = "absent" \/ ~Vacant(a)
          /\ GrantGoes(a, "failed") /\ UNCHANGED accounts
    /\ UNCHANGED << home, tokens, issued, keeper, grantFaults >>

\* activeAttempt, and the condition a save repeats.
AttemptStands(a) ==
    accounts[a].status = "pending" /\ accounts[a].namespace = a /\ HoldsRow(a, a)

CheckAttempt(a) ==
    /\ grant[a].pc = "leased"
    /\ GrantGoes(a, IF AttemptStands(a) THEN "checked" ELSE "failed")
    /\ UNCHANGED << home, accounts, tokens, issued, keeper, grantFaults >>

LeaseTarget(a) ==
    LET b == grant[a].target IN
    /\ grant[a].pc = "checked"
    /\ \/ a = b /\ GrantGoes(a, "both") /\ UNCHANGED accounts
       \/ /\ a # b /\ TakeRowLease(a, b)
          /\ grant' = [grant EXCEPT ![a].pc = "both", ![a].other = TRUE]
       \/ /\ a # b /\ (accounts[b].status = "absent" \/ ~Vacant(b))
          /\ GrantGoes(a, "failed") /\ UNCHANGED accounts
    /\ UNCHANGED << home, tokens, issued, keeper, grantFaults >>

\* The metadata of the new authorization, still pending.  The company of a row
\* is unique.
Unchanged(a) ==
    LET b == grant[a].target IN
    /\ accounts[b].status = (IF a = b THEN "pending" ELSE grant[a].seen)
    /\ accounts[b].namespace = (IF a = b THEN a ELSE grant[a].was)
    /\ HoldsRow(a, b)
    /\ a = b => \A d \in Authorizations \ {a} : ~accounts[d].company

\* Variant: a company is authorized again without taking it out of use.
WriteMetadataInUse(a) ==
    LET b == grant[a].target IN
    /\ grant[a].pc = "both"
    /\ \/ /\ Unchanged(a)
          /\ accounts' = [accounts EXCEPT ![b].company = TRUE, ![b].namespace = a]
          /\ GrantGoes(a, "saving")
       \/ ~Unchanged(a) /\ GrantGoes(a, "failed") /\ UNCHANGED accounts
    /\ UNCHANGED << home, tokens, issued, keeper, grantFaults >>

WriteMetadata(a) ==
    LET b == grant[a].target IN
    /\ grant[a].pc = "both"
    /\ \/ /\ Unchanged(a)
          /\ accounts' = [accounts EXCEPT ![b].status = "pending", ![b].company = TRUE,
                                        ![b].namespace = a]
          /\ GrantGoes(a, "saving")
       \/ ~Unchanged(a) /\ GrantGoes(a, "failed") /\ UNCHANGED accounts
    /\ UNCHANGED << home, tokens, issued, keeper, grantFaults >>

\* saveQuickBooksTokens: secret and status in one batch.
MaySave(a, b) ==
    /\ accounts[b].status \in {"pending", "connected"} /\ accounts[b].namespace = a
    /\ HoldsRow(a, b) /\ AttemptStands(a)

SaveTokens(a) ==
    LET b == grant[a].target IN
    /\ grant[a].pc = "saving"
    /\ \/ /\ MaySave(a, b)
          /\ tokens' = [tokens EXCEPT ![b] = [by |-> a, nth |-> 0]]
          /\ accounts' = [accounts EXCEPT ![b].status = "connected"]
          /\ GrantGoes(a, "saved")
       \/ ~MaySave(a, b) /\ GrantGoes(a, "failed") /\ UNCHANGED << accounts, tokens >>
    /\ UNCHANGED << home, issued, keeper, grantFaults >>

\* The attempt's row is deleted if the company has another.
DropAttempt(a) ==
    /\ grant[a].pc = "saved"
    /\ IF grant[a].target = a THEN UNCHANGED << accounts, tokens >> ELSE DropRow(a)
    /\ GrantGoes(a, "marked")
    /\ UNCHANGED << home, issued, keeper, grantFaults >>

\* The catch block: one guarded update for each leased row.
MarkTarget(a) ==
    LET b == grant[a].target IN
    /\ grant[a].pc = "failed"
    /\ accounts' = IF /\ grant[a].other
                     /\ accounts[b].namespace = a /\ accounts[b].status = "pending"
                     /\ accounts[b].owner = a
                  THEN [accounts EXCEPT ![b].status = "error"] ELSE accounts
    /\ GrantGoes(a, "half")
    /\ UNCHANGED << home, tokens, issued, keeper, grantFaults >>

\* A save whose answer was lost has already connected the row.
IsMyAttempt(a) ==
    /\ accounts[a].namespace = a
    /\ accounts[a].owner = IF grant[a].own THEN a ELSE Nobody
    /\ \/ accounts[a].status = "pending"
       \/ accounts[a].status = "connected" /\ grant[a].own /\ ~grant[a].other

MarkAttempt(a) ==
    /\ grant[a].pc = "half"
    /\ accounts' = IF IsMyAttempt(a) THEN [accounts EXCEPT ![a].status = "error"] ELSE accounts
    /\ GrantGoes(a, "marked")
    /\ UNCHANGED << home, tokens, issued, keeper, grantFaults >>

\* The finally blocks.
ReleaseTarget(a) ==
    /\ grant[a].pc = "marked"
    /\ IF grant[a].other THEN GiveBack(a, grant[a].target) ELSE UNCHANGED accounts
    /\ GrantGoes(a, "released")
    /\ UNCHANGED << home, tokens, issued, keeper, grantFaults >>

ReleaseAttempt(a) ==
    /\ grant[a].pc = "released"
    /\ IF grant[a].own THEN GiveBack(a, a) ELSE UNCHANGED accounts
    /\ GrantGoes(a, "ended")
    /\ UNCHANGED << home, tokens, issued, keeper, grantFaults >>

Fault == grantFaults < MaxGrantFaults /\ grantFaults' = grantFaults + 1

\* A call that fails before the tokens are saved runs the catch block; one that
\* fails in it, or after the save, the finally blocks.
GrantThrows(a) ==
    /\ Fault
    /\ \/ grant[a].pc \in {"away", "found", "leased", "checked", "both", "saving"}
          /\ accounts[a].status # "absent" /\ GrantGoes(a, "failed")
       \/ grant[a].pc \in {"saved", "failed", "half"} /\ GrantGoes(a, "marked")
    /\ UNCHANGED << home, accounts, tokens, issued, keeper >>

SaveAnswerLost(a) ==
    LET b == grant[a].target IN
    /\ grant[a].pc = "saving" /\ MaySave(a, b) /\ Fault
    /\ tokens' = [tokens EXCEPT ![b] = [by |-> a, nth |-> 0]]
    /\ accounts' = [accounts EXCEPT ![b].status = "connected"]
    /\ GrantGoes(a, "failed")
    /\ UNCHANGED << home, issued, keeper >>

GrantDies(a) ==
    /\ grant[a].pc \notin {"idle", "away", "ended", "dead"} /\ Fault
    /\ GrantGoes(a, "dead")
    /\ UNCHANGED << home, accounts, tokens, issued, keeper >>

-----------------------------------------------------------------------------
(* Requests that refresh the tokens of a row or remove it.                 *)

KeeperGoes(k, pc) == keeper' = [keeper EXCEPT ![k].pc = pc]

\* connectedQuickBooksSecret: row and secret in one read.
HasGrant(r) == accounts[r].status = "connected" /\ tokens[r] # NoToken

StartRefresh(k, r) ==
    /\ keeper[k].pc = "idle" /\ HasGrant(r)
    /\ keeper' = [keeper EXCEPT ![k].pc = "refresh", ![k].row = r]
    /\ UNCHANGED << home, accounts, tokens, issued, grant, grantFaults >>

StartRemoval(k, r) ==
    /\ keeper[k].pc = "idle" /\ accounts[r].status # "absent"
    /\ keeper' = [keeper EXCEPT ![k].pc = "remove", ![k].row = r]
    /\ UNCHANGED << home, accounts, tokens, issued, grant, grantFaults >>

LeaseForKeeper(k) ==
    LET r == keeper[k].row IN
    /\ keeper[k].pc \in {"refresh", "remove"} /\ ~keeper[k].leased
    /\ \/ TakeRowLease(k, r) /\ keeper' = [keeper EXCEPT ![k].leased = TRUE]
       \/ /\ accounts[r].status = "absent" \/ ~Vacant(r)
          /\ KeeperGoes(k, "ended") /\ UNCHANGED accounts
    /\ UNCHANGED << home, tokens, issued, grant, grantFaults >>

\* The secret is read again under the lease; a fresh one is used as it is.
Reread(k) ==
    LET r == keeper[k].row IN
    /\ keeper[k].pc = "refresh" /\ keeper[k].leased
    /\ \/ KeeperGoes(k, "releasing")
       \/ /\ HasGrant(r)
          /\ keeper' = [keeper EXCEPT ![k].pc = "reread", ![k].token = tokens[r],
                                      ![k].namespace = accounts[r].namespace]
    /\ UNCHANGED << home, accounts, tokens, issued, grant, grantFaults >>

\* Intuit: the tokens of the last refresh replace those before.
Refresh(k) ==
    LET by == keeper[k].token.by IN
    /\ keeper[k].pc = "reread" /\ issued[by] < MaxRefreshes
    /\ issued' = [issued EXCEPT ![by] = @ + 1]
    /\ keeper' = [keeper EXCEPT ![k].pc = "exchanged",
                                ![k].fresh = [by |-> by, nth |-> issued[by] + 1]]
    /\ UNCHANGED << home, accounts, tokens, grant, grantFaults >>

MayReplace(k) ==
    LET r == keeper[k].row IN
    /\ tokens[r] = keeper[k].token
    /\ accounts[r].status = "connected" /\ accounts[r].namespace = keeper[k].namespace
    /\ HoldsRow(k, r)

SaveRefreshed(k) ==
    /\ keeper[k].pc = "exchanged"
    /\ tokens' = IF MayReplace(k)
                 THEN [tokens EXCEPT ![keeper[k].row] = keeper[k].fresh] ELSE tokens
    /\ KeeperGoes(k, "releasing")
    /\ UNCHANGED << home, accounts, issued, grant, grantFaults >>

\* removeQuickBooksGrant reads the row, revokes at Intuit, and removes in one batch.
ReadForRemoval(k) ==
    LET r == keeper[k].row IN
    /\ keeper[k].pc = "remove" /\ keeper[k].leased
    /\ IF accounts[r].status = "absent" THEN KeeperGoes(k, "releasing")
       ELSE keeper' = [keeper EXCEPT ![k].pc = "removing",
                                     ![k].namespace = accounts[r].namespace]
    /\ UNCHANGED << home, accounts, tokens, issued, grant, grantFaults >>

MayRemove(k) ==
    LET r == keeper[k].row IN
    accounts[r].namespace = keeper[k].namespace /\ HoldsRow(k, r)

RemoveGrant(k) ==
    LET r == keeper[k].row IN
    /\ keeper[k].pc = "removing"
    /\ \/ /\ MayRemove(k)
          /\ tokens' = [tokens EXCEPT ![r] = NoToken]
          /\ accounts' = [accounts EXCEPT ![r].status = "revoked", ![r].company = FALSE]
       \/ ~MayRemove(k) /\ UNCHANGED << accounts, tokens >>
    /\ KeeperGoes(k, "releasing")
    /\ UNCHANGED << home, issued, grant, grantFaults >>

KeeperReleases(k) ==
    /\ keeper[k].pc = "releasing"
    /\ GiveBack(k, keeper[k].row) /\ KeeperGoes(k, "ended")
    /\ UNCHANGED << home, tokens, issued, grant, grantFaults >>

KeeperThrows(k) ==
    /\ keeper[k].pc \in {"refresh", "reread", "exchanged", "remove", "removing"} /\ Fault
    /\ KeeperGoes(k, IF keeper[k].leased THEN "releasing" ELSE "ended")
    /\ UNCHANGED << home, accounts, tokens, issued, grant >>

KeeperDies(k) ==
    /\ keeper[k].pc \notin {"idle", "ended", "dead"} /\ Fault
    /\ KeeperGoes(k, "dead")
    /\ UNCHANGED << home, accounts, tokens, issued, grant >>

-----------------------------------------------------------------------------
\* A lease runs out: that of the dead at any time, that of others in a stall.
AtWork(p) ==
    IF p \in Authorizations THEN grant[p].pc # "dead" ELSE keeper[p].pc # "dead"

LeaseEnds(r) ==
    /\ accounts[r].live
    /\ IF AtWork(accounts[r].owner) THEN Fault ELSE UNCHANGED grantFaults
    /\ accounts' = [accounts EXCEPT ![r].live = FALSE]
    /\ UNCHANGED << home, tokens, issued, grant, keeper >>

CallbackStep(a) ==
    \/ AuthorizeCompany(a) \/ NotAvailable(a) \/ Declines(a) \/ DropDeclined(a) \/ Exchange(a)
    \/ LeaseOwnRow(a) \/ CheckAttempt(a) \/ LeaseTarget(a) \/ WriteMetadata(a)
    \/ SaveTokens(a) \/ DropAttempt(a) \/ MarkTarget(a) \/ MarkAttempt(a)
    \/ ReleaseTarget(a) \/ ReleaseAttempt(a)
    \/ GrantThrows(a) \/ SaveAnswerLost(a) \/ GrantDies(a)

KeeperStep(k) ==
    \/ \E r \in Authorizations : StartRefresh(k, r) \/ StartRemoval(k, r)
    \/ LeaseForKeeper(k) \/ Reread(k) \/ Refresh(k) \/ SaveRefreshed(k)
    \/ ReadForRemoval(k) \/ RemoveGrant(k) \/ KeeperReleases(k)
    \/ KeeperThrows(k) \/ KeeperDies(k)

GrantNext ==
    \/ \E a \in Authorizations : CallbackStep(a) \/ LeaseEnds(a)
    \/ \E k \in Keepers : KeeperStep(k)

GrantSpec == GrantInit /\ [][GrantNext]_grantVars

-----------------------------------------------------------------------------
(* What removing, refreshing and authorizing again have to keep apart.     *)

\* A connected row is read with the tokens of its own authorization: "reconnect
\* never exposes an old secret under new metadata, even if the process stops
\* between steps" (quickbooks.ts:247).
TokensOfTheirGrant ==
    \A r \in Authorizations :
        accounts[r].status = "connected" => tokens[r].by = accounts[r].namespace

\* Removal leaves nothing: no secret, no company ("localCredentialsDeleted").
RemovedKeepsNothing ==
    \A r \in Authorizations :
        accounts[r].status \in {"absent", "revoked"} =>
            tokens[r] = NoToken /\ ~accounts[r].company

\* As long as nothing stalls, fails or dies, the last tokens Intuit issued are
\* stored, or about to be: two refreshes never strand the newer one.
NewestTokenIsKept ==
    grantFaults = 0 =>
        \A r \in Authorizations : accounts[r].status = "connected" =>
            \/ tokens[r].nth = issued[tokens[r].by]
            \/ \E k \in Keepers : /\ keeper[k].pc = "exchanged" /\ keeper[k].row = r
                                  /\ keeper[k].fresh.nth = issued[tokens[r].by]

\* A request that ends has given back both its leases.
NoGrantLeaseLeft ==
    \A r \in Authorizations :
        /\ accounts[r].owner \in Authorizations => grant[accounts[r].owner].pc # "ended"
        /\ accounts[r].owner \in Keepers => keeper[accounts[r].owner].pc # "ended"

\* A company belongs to one row, and so to one workspace.
OneRowPerCompany ==
    \A r, s \in Authorizations : accounts[r].company /\ accounts[s].company => r = s

GrantIsSound ==
    /\ GrantTypeOK /\ TokensOfTheirGrant /\ RemovedKeepsNothing /\ NewestTokenIsKept
    /\ NoGrantLeaseLeft /\ OneRowPerCompany

\* A removed row stays removed, whatever callback had found it before.
RemovalIsFinal ==
    [][\A r \in Authorizations : accounts[r].status = "revoked" =>
            accounts'[r].status \in {"revoked", "absent"}]_grantVars

=============================================================================
