--------------------------- MODULE StoreConnection ---------------------------
(***************************************************************************)
(* Who may connect one Shopify store (app/api/v1/integrations/shopify-pos: *)
(* authorize, callback, disconnect, webhook; server/integrations/          *)
(* shopify-store-lock.ts).  A store may be connected under two providers,  *)
(* e-commerce and POS, whose unique index keeps workspaces apart only      *)
(* within one provider; between providers it is shopify_store_locks.       *)
(* Every handler is a sequence of separate statements around calls to      *)
(* Shopify, and several of them work on one connection row at once.        *)
(***************************************************************************)
EXTENDS Naturals, FiniteSets

CONSTANTS Orgs,        \* workspaces
          Kinds,       \* the providers of the store: shopify, shopify-pos
          Rows,        \* connection rows
          Attempts,    \* authorizations: one request, its state, its callback
          Closers,     \* disconnect requests and uninstall webhooks
          Vacant

ASSUME StoreAssumption == Vacant \notin Orgs \cup Rows

VARIABLES
    row,     \* integration_connections rows of the store
    secret,  \* rows with an integration_secrets row
    lock,    \* shopify_store_locks: the workspace that holds the store
    attempt, \* attempt[a]: authorization, open state or callback, with its row
    closer,  \* closer[d]: disconnect or webhook in flight
    overtaken \* history: rows made pending while another request worked on them

storeVars == << row, secret, lock, attempt, closer, overtaken >>

Unused == [org |-> Vacant, kind |-> Vacant, status |-> "none", domain |-> FALSE, known |-> "no"]
NoWork == [pc |-> "none", row |-> Vacant]
NoClosing == [pc |-> "none", row |-> Vacant, shop |-> FALSE]

\* known: connected_at is set, or an audit event says that it was connected.
StoreRows ==
    [org : Orgs \cup {Vacant}, kind : Kinds \cup {Vacant},
     status : {"none", "pending", "connected", "error", "revoked"}, domain : BOOLEAN,
     known : {"no", "dated", "audited"}]

StoreTypeOK ==
    /\ row \in [Rows -> StoreRows]
    /\ secret \subseteq Rows
    /\ lock \in Orgs \cup {Vacant}
    /\ DOMAIN attempt = Attempts /\ DOMAIN closer = Closers
    /\ \A a \in Attempts : attempt[a].row \in Rows \cup {Vacant}
    /\ overtaken \subseteq Rows

StoreInit ==
    /\ row = [r \in Rows |-> Unused]
    /\ secret = {}
    /\ lock = Vacant
    /\ attempt = [a \in Attempts |-> NoWork]
    /\ closer = [d \in Closers |-> NoClosing]
    /\ overtaken = {}

Attempt(a, pc, r) == attempt' = [attempt EXCEPT ![a] = [pc |-> pc, row |-> r]]

\* Authorizations that have made their row pending, and callbacks.
Working == {"reopened", "open", "checked", "exchanged", "saved", "identified", "claimed",
            "connected", "failed", "cleared", "marked"}
Closing(r) == \E d \in Closers : closer[d].row = r
Busy(r) ==
    \/ \E a \in Attempts : attempt[a].row = r /\ attempt[a].pc \in Working \ {"open"}
    \/ Closing(r)

\* The rows of the store, as the domain finds them.
Linked == {r \in Rows : row[r].org # Vacant /\ row[r].domain}
Own(o, k) == {r \in Linked : row[r].org = o /\ row[r].kind = k}

\* The unique index on provider and domain refuses the store to r.
Refused(r, k) == \E q \in Linked \ {r} : row[q].kind = k

\* Variant: the workspace's other connection is not looked for.
ReleasedAnyway(o) == IF lock = o THEN Vacant ELSE lock

\* releaseShopifyStoreIfUnused(o): one statement.
Released(o) ==
    IF /\ lock = o
       /\ ~ \E r \in Linked : row[r].org = o /\ row[r].status \in {"pending", "connected"}
    THEN Vacant ELSE lock

\* claimShopifyStore(o) succeeds.
Claimable(o) == lock \in {Vacant, o}

-----------------------------------------------------------------------------
(* authorize: a new row, or the old one made pending again.                *)

\* The refusals, on the rows as read.
AuthorizeRead(a, o, k) ==
    /\ attempt[a].pc = "none"
    /\ ~ \E r \in Linked : row[r].org # o /\ row[r].status = "connected"
    /\ \A r \in Own(o, k) : row[r].status # "connected"
    /\ \/ \E r \in Own(o, k) : Attempt(a, "again", r)
       \/ /\ Own(o, k) = {}
          /\ \E r \in Rows : /\ row[r] = Unused
                             /\ \A b \in Attempts : attempt[b].row # r
                             /\ attempt' = [attempt EXCEPT ![a] =
                                    [pc |-> "new", row |-> r, org |-> o, kind |-> k]]
    /\ UNCHANGED << row, secret, lock, closer, overtaken >>

\* The existing row: its other states are deleted,
ForgetStates(a) ==
    LET r == attempt[a].row
    IN /\ attempt[a].pc = "again"
       /\ attempt' = [b \in Attempts |->
              IF b = a THEN [pc |-> "stateless", row |-> r]
              ELSE IF attempt[b] = [pc |-> "open", row |-> r] THEN [pc |-> "over", row |-> r]
              ELSE attempt[b]]
       /\ UNCHANGED << row, secret, lock, closer, overtaken >>

\* Another request works on the row.
Overtakes(a, r) ==
    \/ \E b \in Attempts \ {a} : attempt[b].row = r /\ attempt[b].pc \in Working
    \/ Closing(r)

\* it is made pending, whatever became of it since it was read,
AuthorizeAgain(a) ==
    LET r == attempt[a].row
    IN /\ attempt[a].pc = "stateless"
       /\ IF ~row[r].domain /\ Refused(r, row[r].kind)
          THEN Attempt(a, "over", r) /\ UNCHANGED << row, overtaken >>
          ELSE /\ Attempt(a, "reopened", r)
               /\ row' = [row EXCEPT ![r].status = "pending", ![r].domain = TRUE,
                                     ![r].known = IF @ = "audited" THEN @ ELSE "no"]
               /\ overtaken' = IF Overtakes(a, r) THEN overtaken \cup {r}
                                                  ELSE overtaken \ {r}
       /\ UNCHANGED << secret, lock, closer >>

\* or a new row is inserted.
AuthorizeNew(a) ==
    LET w == attempt[a]
    IN /\ w.pc = "new"
       /\ IF Refused(w.row, w.kind)
          THEN /\ Attempt(a, "over", Vacant)
               /\ UNCHANGED row
          ELSE /\ row' = [row EXCEPT ![w.row] = [org |-> w.org, kind |-> w.kind,
                              status |-> "pending", domain |-> TRUE, known |-> "no"]]
               /\ Attempt(a, "reopened", w.row)
       /\ UNCHANGED << secret, lock, closer, overtaken >>

\* The new state, with which the owner goes to Shopify.
OpenState(a) ==
    /\ attempt[a].pc = "reopened"
    /\ Attempt(a, "open", attempt[a].row)
    /\ UNCHANGED << row, secret, lock, closer, overtaken >>

-----------------------------------------------------------------------------
(* callback: Shopify sends the owner's browser back, or it never returns.  *)

CallbackStep(a, from, to) ==
    /\ attempt[a].pc = from
    /\ Attempt(a, to, attempt[a].row)

\* The state is consumed by a guarded update, and only then is the row read;
\* a row that is not pending, with the domain, ends the callback here.
Consume(a) ==
    /\ CallbackStep(a, "open",
           IF row[attempt[a].row].status = "pending" /\ row[attempt[a].row].domain
           THEN "checked" ELSE "over")
    /\ UNCHANGED << row, secret, lock, closer, overtaken >>

Exchange(a) ==
    /\ CallbackStep(a, "checked", "exchanged")
    /\ UNCHANGED << row, secret, lock, closer, overtaken >>

SaveToken(a) ==
    /\ CallbackStep(a, "exchanged", "saved")
    /\ secret' = secret \cup {attempt[a].row}
    /\ UNCHANGED << row, lock, closer, overtaken >>

\* The store's identity is read with the saved token.
Identify(a) ==
    /\ attempt[a].row \in secret
    /\ CallbackStep(a, "saved", "identified")
    /\ UNCHANGED << row, secret, lock, closer, overtaken >>

Claim(a) ==
    LET o == row[attempt[a].row].org
    IN /\ CallbackStep(a, "identified", IF Claimable(o) THEN "claimed" ELSE "failed")
       /\ lock' = IF Claimable(o) THEN o ELSE lock
       /\ UNCHANGED << row, secret, closer, overtaken >>

\* The row becomes connected if it is still pending.
StillPending(r) == row[r].status = "pending"

Connect(a) ==
    LET r == attempt[a].row
    IN /\ CallbackStep(a, "claimed", IF StillPending(r) THEN "connected" ELSE "failed")
       /\ row' = IF StillPending(r)
                 THEN [row EXCEPT ![r].status = "connected",
                                  ![r].known = IF @ = "audited" THEN @ ELSE "dated"]
                 ELSE row
       /\ UNCHANGED << secret, lock, closer, overtaken >>

\* The audit event that says so; if it cannot be written, the callback fails.
RecordConnected(a) ==
    /\ CallbackStep(a, "connected", "over")
    /\ row' = [row EXCEPT ![attempt[a].row].known = "audited"]
    /\ UNCHANGED << secret, lock, closer, overtaken >>

\* Any call to Shopify or the database may fail.
CallbackFails(a) ==
    /\ attempt[a].pc \in {"checked", "exchanged", "saved", "identified", "claimed", "connected"}
    /\ Attempt(a, "failed", attempt[a].row)
    /\ UNCHANGED << row, secret, lock, closer, overtaken >>

\* The handler's catch, three statements without a guard on what the row has
\* become.
ClearSecret(a) ==
    /\ CallbackStep(a, "failed", "cleared")
    /\ secret' = secret \ {attempt[a].row}
    /\ UNCHANGED << row, lock, closer, overtaken >>

MarkError(a) ==
    /\ CallbackStep(a, "cleared", "marked")
    /\ row' = [row EXCEPT ![attempt[a].row].status = "error"]
    /\ UNCHANGED << secret, lock, closer, overtaken >>

GiveUpStore(a) ==
    /\ CallbackStep(a, "marked", "over")
    /\ lock' = Released(row[attempt[a].row].org)
    /\ UNCHANGED << row, secret, closer, overtaken >>

\* The process dies between two statements.
Crash(a) ==
    /\ attempt[a].pc \in Working \ {"open"}
    /\ Attempt(a, "dead", attempt[a].row)
    /\ UNCHANGED << row, secret, lock, closer, overtaken >>

-----------------------------------------------------------------------------
(* disconnect, and the webhook of an uninstalled app or a redacted store.  *)

Close(d, pc) == closer' = [closer EXCEPT ![d].pc = pc]

\* requireOwnedIntegrationConnection: any row of the workspace, with its domain.
BeginDisconnect(d, r) ==
    /\ closer[d].pc = "none"
    /\ row[r].org # Vacant
    /\ closer' = [closer EXCEPT ![d] = [pc |-> "disconnect", row |-> r, shop |-> row[r].domain]]
    /\ UNCHANGED << row, secret, lock, attempt, overtaken >>

\* findShopifyPrivacyConnections: rows that are or were connected.
BeginUninstall(d, r) ==
    /\ closer[d].pc = "none"
    /\ row[r].known = "audited" \/ (row[r].known = "dated" /\ row[r].domain)
    /\ closer' = [closer EXCEPT ![d] = [pc |-> "uninstall", row |-> r, shop |-> TRUE]]
    /\ UNCHANGED << row, secret, lock, attempt, overtaken >>

DeleteSecret(d) ==
    /\ \/ closer[d].pc = "disconnect" /\ Close(d, "states")
       \/ closer[d].pc = "uninstall" /\ Close(d, "redact")
    /\ secret' = secret \ {closer[d].row}
    /\ UNCHANGED << row, lock, attempt, overtaken >>

DeleteStates(d) ==
    /\ closer[d].pc = "states"
    /\ Close(d, "revoke")
    /\ attempt' = [a \in Attempts |->
           IF attempt[a] = [pc |-> "open", row |-> closer[d].row]
           THEN [pc |-> "over", row |-> closer[d].row] ELSE attempt[a]]
    /\ UNCHANGED << row, secret, lock, overtaken >>

\* The disconnected row is given the store's domain as it was read, if the index
\* lets it; the redacted one has none.
Revoke(d) ==
    LET r == closer[d].row
        domain == closer[d].pc = "revoke" /\ closer[d].shop
    IN /\ closer[d].pc \in {"revoke", "redact"}
       /\ IF domain /\ ~row[r].domain /\ Refused(r, row[r].kind)
          THEN /\ closer' = [closer EXCEPT ![d] = [NoClosing EXCEPT !.pc = "done"]]
               /\ UNCHANGED row
          ELSE /\ Close(d, "release")
               /\ row' = [row EXCEPT ![r].status = "revoked", ![r].domain = domain]
       /\ UNCHANGED << secret, lock, attempt, overtaken >>

\* Without a domain there is nothing to give up.
ReleaseStore(d) ==
    /\ closer[d].pc = "release"
    /\ lock' = IF closer[d].shop THEN Released(row[closer[d].row].org) ELSE lock
    /\ closer' = [closer EXCEPT ![d] = [NoClosing EXCEPT !.pc = "done"]]
    /\ UNCHANGED << row, secret, attempt, overtaken >>

-----------------------------------------------------------------------------
CallbackNext(a) ==
    \/ Consume(a) \/ Exchange(a) \/ SaveToken(a) \/ Identify(a) \/ Claim(a) \/ Connect(a)
    \/ RecordConnected(a) \/ CallbackFails(a) \/ ClearSecret(a) \/ MarkError(a) \/ GiveUpStore(a) \/ Crash(a)

CloserNext(d) ==
    \/ \E r \in Rows : BeginDisconnect(d, r) \/ BeginUninstall(d, r)
    \/ DeleteSecret(d) \/ DeleteStates(d) \/ Revoke(d) \/ ReleaseStore(d)

StoreNext ==
    \/ \E a \in Attempts :
          \/ \E o \in Orgs, k \in Kinds : AuthorizeRead(a, o, k)
          \/ ForgetStates(a) \/ AuthorizeAgain(a) \/ AuthorizeNew(a) \/ OpenState(a)
          \/ CallbackNext(a)
    \/ \E d \in Closers : CloserNext(d)

StoreSpec == StoreInit /\ [][StoreNext]_storeVars

-----------------------------------------------------------------------------
(* Properties.                                                             *)

\* A connected store is held by its workspace, so no two workspaces are ever
\* connected to one store, under whatever providers, however claims, releases
\* and failures of the two interleave.  A row that was made pending while another
\* callback or disconnect worked on it has no such promise, until it is
\* authorized again undisturbed.
ConnectedHoldsLock ==
    \A r \in Rows \ overtaken : row[r].status = "connected" => lock = row[r].org

\* "This Shopify store is already connected to another Vanteloq workspace": two
\* workspaces are never connected to one store at once, says the lock.  A row made
\* pending again between a callback's claim and its connecting breaks it.
OneWorkspacePerStore ==
    \A r, q \in Rows : row[r].status = "connected" /\ row[q].status = "connected"
                           => row[r].org = row[q].org

\* What the code does keep of it: of two connected rows neither of which was
\* overtaken, both are the same workspace's.
OneUndisturbedWorkspace ==
    \A r, q \in Rows \ overtaken :
        row[r].status = "connected" /\ row[q].status = "connected" => row[r].org = row[q].org

\* Every request on the row has ended, none of them by dying.
Settled(r) ==
    /\ ~Busy(r)
    /\ ~ \E a \in Attempts : attempt[a] = [pc |-> "dead", row |-> r]

\* A failed authorization leaves no token behind, once every request on the row
\* has ended and unless it was overtaken.  (A callback that died may leave one, and
\* so does a disconnect that overtakes a callback: the row is then revoked.)
FailedKeepsNoToken ==
    \A r \in Rows \ overtaken : row[r].status = "error" /\ Settled(r) => r \notin secret

\* A connected row has the token that its syncs need: neither the cleanup of a
\* failed attempt nor a disconnect takes it from a connection that stays, unless
\* the row was overtaken.
ConnectedHasToken ==
    \A r \in Rows \ overtaken : row[r].status = "connected" /\ Settled(r) => r \in secret

\* A connected store is its workspace's alone and has what syncs need; a failed
\* one has nothing left.
StoresAreSound ==
    StoreTypeOK /\ ConnectedHoldsLock /\ FailedKeepsNoToken /\ ConnectedHasToken
=============================================================================
