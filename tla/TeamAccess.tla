----------------------------- MODULE TeamAccess -----------------------------
(***************************************************************************)
(* How one invited colleague gets into the inviting workspace and is put   *)
(* out of it.  Four parties work on two databases without a common         *)
(* transaction: the owner's console keeps the invitation (grant, in the    *)
(* identity service), the colleague accepts it or signs up alone           *)
(* (server/team-invitations.ts, onboarding/route.ts), the console's        *)
(* removal suspends the local rows (server/team-access-management.ts) and  *)
(* an administrator edits the member (governance/route.ts).  Every request *)
(* asks findAccessContext, which reads both.                               *)
(*                                                                         *)
(* The colleague has one email address.  Subjects are the sign-in          *)
(* identities that own it in turn: a deleted and recreated account has a   *)
(* new subject under the old address.  The identity service is asked for   *)
(* every request, so only the live subject starts one or is heard by the   *)
(* services; what a replaced one has under way still writes locally.       *)
(***************************************************************************)
EXTENDS Naturals, FiniteSets

CONSTANTS Subjects,   \* sign-in identities of the one email address
          Roles,      \* roles an invitation can carry
          MaxGen,     \* bound: invitations sent
          MaxEdits,   \* bound: administrator's edits and removals
          None

ASSUME TeamAssumption ==
    /\ None \notin Subjects /\ Subjects # {} /\ Roles # {}
    /\ MaxGen \in Nat /\ MaxEdits \in Nat

VARIABLES
    live,       \* the subject that owns the address
    gone,       \* the subjects it replaced
    grant,      \* the invitation row of the identity service
    user,       \* users row of the address
    membership, \* memberships row of that user
    member,     \* team_members row: does it count as an active remote login?
    receipts,   \* team_invitation.accepted audit rows: generation, role
    removal,    \* last team_access.* audit action: none, revoked, deleted
    call,       \* call[s]: the request that s has in flight
    manage,     \* manageTeamAccess in flight
    edits,      \* bounds the owner's and administrator's work
    consents    \* history: which subject's acceptance was written, for what

teamVars == << live, gone, grant, user, membership, member, receipts, removal, call,
               manage, edits, consents >>

Idle == [pc |-> "idle"]

TeamGrants ==
    [gen : 0..MaxGen, status : {"none", "pending", "accepted", "revoked"}, role : Roles,
     subject : Subjects \cup {None}, op : {None, "revoke", "delete"}]
TeamUsers ==
    [subject : Subjects \cup {None}, id : Subjects \cup {None},
     status : {"none", "active", "suspended"}]
TeamMemberships ==
    [org : {"none", "team", "own"}, role : Roles \cup {"owner"},
     status : {"active", "suspended"}]

TeamTypeOK ==
    /\ live \in Subjects /\ gone \subseteq Subjects \ {live}
    /\ grant \in TeamGrants /\ user \in TeamUsers /\ membership \in TeamMemberships
    /\ member \in {"none", "active", "suspended", "archived"}
    /\ receipts \subseteq [gen : 1..MaxGen, role : Roles]
    /\ removal \in {"none", "revoked", "deleted"}
    /\ DOMAIN call = Subjects
    /\ edits \in 0..MaxEdits
    /\ consents \subseteq [gen : 1..MaxGen, role : Roles, subject : Subjects]

TeamInit ==
    /\ live \in Subjects /\ gone = {}
    /\ grant = [gen |-> 0, status |-> "none", role |-> CHOOSE r \in Roles : TRUE,
                subject |-> None, op |-> None]
    /\ user = [subject |-> None, id |-> None, status |-> "none"]
    /\ membership = [org |-> "none", role |-> CHOOSE r \in Roles : TRUE,
                     status |-> "suspended"]
    /\ member = "none"
    /\ receipts = {}
    /\ removal = "none"
    /\ call = [s \in Subjects |-> Idle]
    /\ manage = Idle
    /\ edits = 0
    /\ consents = {}

-----------------------------------------------------------------------------
(* What the code asks of the two databases.                                *)

\* invitationIdentityAllowed, on the row as the identity service returns it.
\* Expiry is left out: a pending row may also be withdrawn, to the same end.
IdentityAllowed(s) ==
    /\ grant.status \in {"pending", "accepted"}
    /\ grant.op = None
    /\ grant.subject \in {None, s}
    /\ grant.status = "accepted" => grant.subject = s

\* Variant: a receipt of any generation will do.
ProvisionedOnce(s) ==
    /\ membership.org = "team" /\ membership.status = "active"
    /\ membership.role = grant.role
    /\ member = "active"
    /\ user.subject = s /\ user.status = "active"
    /\ \E x \in receipts : x.role = grant.role

\* provisioningReceipt: the local rows show this generation in this role.
Provisioned(s) ==
    /\ membership.org = "team" /\ membership.status = "active"
    /\ membership.role = grant.role
    /\ member = "active"
    /\ user.subject = s /\ user.status = "active"
    /\ [gen |-> grant.gen, role |-> grant.role] \in receipts

\* liveTeamMembershipAllowed.  A person who never accepted an invitation into
\* the organization is not an invited employee, and the row is not consulted.
LiveAllowed(s) ==
    \/ membership.org = "own"
    \/ receipts = {}
    \/ /\ IdentityAllowed(s)
       /\ grant.status = "accepted" /\ grant.role = membership.role
       /\ Provisioned(s)

\* findAccessContext: s is let into the workspace of its membership.
Access(s) ==
    /\ s = live
    /\ user.status = "active" /\ user.subject \in {None, s}
    /\ membership.org # "none" /\ membership.status = "active"
    /\ LiveAllowed(s)

\* pendingTeamInvitation: the sign-up page shows the invitation.
Invited(s) == IdentityAllowed(s) /\ ~(grant.status = "accepted" /\ Provisioned(s))

-----------------------------------------------------------------------------
(* The owner's console, external: what the code relies on is that an       *)
(* invitation carries a generation of its own, and that a removal is       *)
(* announced in lifecycle_operation before it starts.                      *)

\* The identity is deleted, and a new one signs up under the address.
ReplaceIdentity(s) ==
    /\ s \notin gone \cup {live}
    /\ live' = s
    /\ gone' = gone \cup {live}
    /\ UNCHANGED << grant, user, membership, member, receipts, removal, call, manage,
                    edits, consents >>

\* A new invitation, or a new one after a removal.
Invite(r, s) ==
    /\ s \in {None, live}
    /\ grant.gen < MaxGen
    /\ grant.op = None
    /\ grant' = [gen |-> grant.gen + 1, status |-> "pending", role |-> r,
                 subject |-> s, op |-> None]
    /\ UNCHANGED << live, gone, user, membership, member, receipts, removal, call, manage,
                    edits, consents >>

BeginRemoval(op) ==
    /\ grant.status \in {"pending", "accepted"}
    /\ grant.op = None
    /\ edits < MaxEdits
    /\ edits' = edits + 1
    /\ grant' = [grant EXCEPT !.op = op]
    /\ UNCHANGED << live, gone, user, membership, member, receipts, removal, call, manage,
                    consents >>

\* manageTeamAccess up to its batch: it finds the user by email, refuses a
\* person of another workspace and an identity that is not the grant's.
ManageRead ==
    /\ grant.op # None
    /\ manage = Idle
    /\ manage' = [pc |-> "write", op |-> grant.op, found |-> user.status # "none"]
    /\ membership.org # "own"
    /\ None \in {user.subject, grant.subject} \/ user.subject = grant.subject
    /\ UNCHANGED << live, gone, grant, user, membership, member, receipts, removal, call,
                    edits, consents >>

MemberAfter(op) == IF op = "delete" THEN "archived" ELSE "suspended"

\* Its batch, and the console closing the operation on the answer.
ManageWrite ==
    /\ manage.pc = "write"
    /\ manage' = Idle
    /\ grant' = [grant EXCEPT !.status = "revoked", !.op = None]
    /\ IF manage.found
       THEN /\ user' = [user EXCEPT !.status = "suspended"]
            /\ membership' = [membership EXCEPT !.status = "suspended"]
            /\ member' = IF member = "none" THEN member
                         ELSE MemberAfter(manage.op)
            /\ removal' = IF manage.op = "delete" THEN "deleted" ELSE "revoked"
       ELSE UNCHANGED << user, membership, member, removal >>
    /\ UNCHANGED << live, gone, receipts, call, edits, consents >>

\* governance update_employee: the member's status, and with it the
\* membership's; a new role changes the membership's role.
UpdateEmployee(status, r) ==
    /\ member # "none"
    /\ edits < MaxEdits
    /\ edits' = edits + 1
    /\ member' = status
    /\ membership' = IF membership.org # "team" THEN membership
                     ELSE [membership EXCEPT !.role = r,
                             !.status = IF status = "active" THEN "active" ELSE "suspended"]
    /\ UNCHANGED << live, gone, grant, user, receipts, removal, call, manage, consents >>

-----------------------------------------------------------------------------
(* acceptTeamInvitation.                                                   *)

Step(s, c) == call' = [call EXCEPT ![s] = c]

\* Variant: an accepted row is not accepted again.
AcceptRowOnce(s) ==
    /\ s = live /\ call[s] = Idle
    /\ IdentityAllowed(s) /\ grant.status = "pending"
    /\ Step(s, [pc |-> "lookup", gen |-> grant.gen, role |-> grant.role,
                own |-> grant.subject = s])
    /\ UNCHANGED << live, gone, grant, user, membership, member, receipts, removal, manage,
                    edits, consents >>

\* Terms, a recent sign-in and the invitation row.
AcceptRow(s) ==
    /\ s = live /\ call[s] = Idle
    /\ IdentityAllowed(s)
    /\ Step(s, [pc |-> "lookup", gen |-> grant.gen, role |-> grant.role,
                own |-> grant.subject = s])
    /\ UNCHANGED << live, gone, grant, user, membership, member, receipts, removal, manage,
                    edits, consents >>

\* deletedTeamIdentityRecoveryAllowed: the address belonged to an identity
\* that the owner's console has deleted, and the row is bound to this one.
Recoverable(s) == call[s].own /\ user.status = "suspended" /\ removal = "deleted"

\* The local rows, and the refusals IDENTITY_CONFLICT and MEMBERSHIP_CONFLICT.
AcceptLookup(s) ==
    /\ call[s].pc = "lookup"
    /\ LET bound == user.subject \notin {None, s}
           ok == (bound => Recoverable(s)) /\ membership.org # "own"
       IN Step(s, IF ok THEN [pc |-> "write", gen |-> call[s].gen, role |-> call[s].role,
                              id |-> IF user.status = "none" THEN s ELSE user.id,
                              prior |-> IF bound THEN user.subject ELSE None]
                  ELSE Idle)
    /\ UNCHANGED << live, gone, grant, user, membership, member, receipts, removal, manage,
                    edits, consents >>

\* Variant: the account that was looked up, whatever has become of it.
UserTakenAsRead(s) ==
    \/ user.subject \in {None, s}
    \/ user.subject = call[s].prior

\* ON CONFLICT(email) DO UPDATE ... WHERE: an unbound account, one's own, or
\* the suspended one that was looked up.
UserTaken(s) ==
    \/ user.subject \in {None, s}
    \/ user.status = "suspended" /\ user.subject = call[s].prior

\* ON CONFLICT(user_id) DO UPDATE ... WHERE organization_id is the team's.
Joined(s) ==
    IF membership.org = "own" THEN membership
    ELSE [org |-> "team", role |-> call[s].role, status |-> "active"]

\* The batch.  Its rows name the user id of the lookup; when another request
\* has created the account under another id, the foreign keys refuse it all.
AcceptWrite(s) ==
    /\ call[s].pc = "write"
    /\ IF user.status # "none" /\ user.id # call[s].id
       THEN /\ Step(s, Idle)
            /\ UNCHANGED << user, membership, member, receipts, consents >>
       ELSE /\ user' = IF UserTaken(s)
                       THEN [subject |-> s, id |-> call[s].id, status |-> "active"] ELSE user
            /\ membership' = Joined(s)
            /\ member' = "active"
            /\ receipts' = IF \E x \in receipts : x.gen = call[s].gen THEN receipts
                           ELSE receipts \cup {[gen |-> call[s].gen, role |-> call[s].role]}
            /\ consents' = consents \cup
                   {[gen |-> call[s].gen, role |-> call[s].role, subject |-> s]}
            /\ Step(s, [pc |-> "finalize"])
    /\ UNCHANGED << live, gone, grant, removal, manage, edits >>

\* team.vanteloq.accept at the console: by invitation id, with no generation.
\* The answer may be lost, and the colleague is told to try again.
AcceptFinalize(s) ==
    /\ call[s].pc = "finalize"
    /\ Step(s, Idle)
    /\ \/ /\ s = live /\ IdentityAllowed(s)
          /\ grant' = [grant EXCEPT !.status = "accepted", !.subject = s]
       \/ grant' = grant
    /\ UNCHANGED << live, gone, user, membership, member, receipts, removal, manage, edits,
                    consents >>

-----------------------------------------------------------------------------
(* Signing up alone (onboarding/route.ts).                                 *)

\* No invitation, no access, and onboardingIdentityDisposition has nothing
\* against it: not suspended, no membership.
OnboardRead(s) ==
    /\ s = live /\ call[s] = Idle
    /\ ~Invited(s) /\ ~Access(s)
    /\ user.status # "suspended"
    /\ membership.org = "none"
    /\ Step(s, [pc |-> "sign up", id |-> IF user.status = "none" THEN s ELSE user.id])
    /\ UNCHANGED << live, gone, grant, user, membership, member, receipts, removal, manage,
                    edits, consents >>

\* The users upsert binds the address to this identity, whatever it finds; it
\* keeps the status, and a suspended account goes no further.
OnboardUser(s) ==
    /\ call[s].pc = "sign up"
    /\ user' = IF user.status = "none"
               THEN [subject |-> s, id |-> call[s].id, status |-> "active"]
               ELSE [user EXCEPT !.subject = s]
    /\ Step(s, IF user.status = "suspended" THEN Idle ELSE [pc |-> "create"])
    /\ UNCHANGED << live, gone, grant, membership, member, receipts, removal, manage, edits,
                    consents >>

\* The workspace batch: the membership is ON CONFLICT(user_id) DO NOTHING.
OnboardWorkspace(s) ==
    /\ call[s].pc = "create"
    /\ Step(s, Idle)
    /\ membership' = IF membership.org = "none"
                     THEN [org |-> "own", role |-> "owner", status |-> "active"]
                     ELSE membership
    /\ UNCHANGED << live, gone, grant, user, member, receipts, removal, manage, edits, consents >>

-----------------------------------------------------------------------------
AcceptNext(s) == AcceptRow(s) \/ AcceptLookup(s) \/ AcceptWrite(s) \/ AcceptFinalize(s)

TeamNext ==
    \/ \E s \in Subjects : ReplaceIdentity(s)
    \/ \E r \in Roles, s \in Subjects \cup {None} : Invite(r, s)
    \/ \E op \in {"revoke", "delete"} : BeginRemoval(op)
    \/ ManageRead \/ ManageWrite
    \/ \E st \in {"active", "suspended", "archived"}, r \in Roles : UpdateEmployee(st, r)
    \/ \E s \in Subjects : AcceptNext(s)
    \/ \E s \in Subjects : OnboardRead(s) \/ OnboardUser(s) \/ OnboardWorkspace(s)

\* A request that has begun runs to its end, a colleague who is invited and
\* not let in tries again, and the console does not fail for ever.
TeamFairness ==
    \A s \in Subjects :
        /\ WF_teamVars(~Access(s) /\ AcceptRow(s))
        /\ WF_teamVars(AcceptLookup(s) \/ AcceptWrite(s))
        /\ SF_teamVars(AcceptFinalize(s) /\ grant'.status = "accepted")
        /\ WF_teamVars(OnboardUser(s) \/ OnboardWorkspace(s))

TeamSpec == TeamInit /\ [][TeamNext]_teamVars /\ TeamFairness

-----------------------------------------------------------------------------
(* Properties.                                                             *)

\* Whoever is let into the team's workspace is an identity that accepted the
\* owner's current invitation itself, in the role it now has, and no removal
\* is under way: an acceptance that was still in flight when the owner removed
\* the colleague, or invited them again, gives nothing.
AccessIsGranted ==
    \A s \in Subjects :
        Access(s) /\ membership.org = "team" =>
            /\ grant.status = "accepted" /\ grant.op = None
            /\ [gen |-> grant.gen, role |-> membership.role, subject |-> s] \in consents

\* An acceptance never takes over the workspace that the colleague has set up
\* meanwhile: an owner stays the owner of that workspace.
OwnStaysOwn ==
    [][membership.org = "own" => /\ membership'.org = "own"
                                 /\ membership'.role = "owner"]_teamVars

\* An acceptance on a stale lookup takes over the address only from an
\* identity that is out: the account it replaces is suspended.
NoTakeover ==
    [][\A s \in Subjects :
          /\ call[s].pc = "write" /\ call'[s].pc = "finalize"
          /\ user.status = "active"
          => user.subject \in {None, s, user'.subject}]_teamVars

\* An invitation is never a dead end: while the row stands for the person who
\* owns the address, and the account is not tied to somebody else or to a
\* workspace of its own, trying again lets the person in.  Lost answers of
\* the console, an edit of the role and a half-done sign-up do not lock the
\* person out.
Acceptable(s) ==
    /\ s = live /\ IdentityAllowed(s)
    /\ user.subject \in {None, s} /\ membership.org # "own"

InvitedGetsIn ==
    \A s \in Subjects : Acceptable(s) ~> (Access(s) \/ ~Acceptable(s))

\* Who is in is known and was let in.
AccessIsSound == TeamTypeOK /\ AccessIsGranted

\* An acceptance takes neither a workspace nor an address from anybody.
NothingIsTakenOver == OwnStaysOwn /\ NoTakeover
=============================================================================
