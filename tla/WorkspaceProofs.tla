--------------------------- MODULE WorkspaceProofs ---------------------------
(***************************************************************************)
(* Who belongs to a workspace, which store does, and whose turn it is.     *)
(* The proofs of the team's access (TeamAccess), of the store lock         *)
(* (StoreConnection) and of the scheduler's ticks (SyncTick), for every    *)
(* number of identities, invitations, rows, requests and connections.      *)
(*                                                                         *)
(* Access rests on AcceptedSelf: the console hears of an acceptance by the *)
(* invitation's id and not by its generation, so what has to be kept is    *)
(* that the live identity, once it is about to report or is reported,      *)
(* accepted the current generation whenever anybody has.  The store rests  *)
(* on the lock being held by whichever request is about to connect.        *)
(* Turns rest on a count: each tick that passes a connection over takes    *)
(* Limit of those ahead of it, and only a lease that runs out puts one of  *)
(* them back there.                                                        *)
(***************************************************************************)
EXTENDS TeamAccess, StoreConnection, SyncTick, FiniteSetTheorems, WellFoundedInduction,
        TLAPS

-----------------------------------------------------------------------------
(* Team access.  The inductive invariant.                                   *)

CallShapes ==
    [pc : {"idle", "finalize", "create"}]
      \cup [pc : {"lookup"}, gen : 1..MaxGen, role : Roles, own : BOOLEAN]
      \cup [pc : {"write"}, gen : 1..MaxGen, role : Roles, id : Subjects \cup {None},
            prior : Subjects \cup {None}]
      \cup [pc : {"sign up"}, id : Subjects \cup {None}]

CallsTyped == call \in [Subjects -> CallShapes]

Accepting(s) == call[s].pc \in {"lookup", "write"}

\* What is accepted is an invitation that was sent, in its role.
OfInvitation(x) == x.gen <= grant.gen /\ (x.gen = grant.gen => x.role = grant.role)

InvitationsKnown ==
    /\ grant.gen = 0 => grant.status \notin {"pending", "accepted"}
    /\ \A s \in Subjects : Accepting(s) => OfInvitation(call[s])
    /\ \A x \in consents : OfInvitation(x)
    /\ \A x \in receipts : \E y \in consents : y.gen = x.gen
    /\ membership.org = "team" => receipts # {}
    /\ membership.org = "own" => membership.role = "owner"

\* Who never owned the address has done nothing.
SubjectsKnown ==
    /\ grant.subject \in gone \cup {live, None}
    /\ \A s \in Subjects \ (gone \cup {live}) :
          call[s].pc = "idle" /\ \A x \in consents : x.subject # s

\* Whoever was replaced accepts nothing newer than the one who replaced it.
NewestIsLive ==
    Accepting(live) =>
       /\ \A t \in Subjects \ {live} : Accepting(t) => call[t].gen <= call[live].gen
       /\ \A x \in consents : x.subject # live => x.gen <= call[live].gen

\* The current invitation was accepted, or still is by a replaced identity.
Underway ==
    \/ \E x \in consents : x.gen = grant.gen
    \/ \E t \in Subjects \ {live} : Accepting(t) /\ call[t].gen = grant.gen

\* The console is told of an acceptance by its invitation only.  Whoever it is told
\* of has accepted the current generation, if anybody has.
AcceptedSelf ==
    /\ \/ call[live].pc = "finalize"
       \/ grant.status = "accepted" /\ grant.subject = live
    /\ Underway
    => \E x \in consents : x.gen = grant.gen /\ x.subject = live

TeamInv ==
    /\ TeamTypeOK /\ CallsTyped /\ InvitationsKnown /\ SubjectsKnown /\ NewestIsLive
    /\ AcceptedSelf

-----------------------------------------------------------------------------
(* What the steps do to them.                                               *)

CallBecomes(s, c) == call'[s] = c /\ \A t \in Subjects \ {s} : call'[t] = call[t]

LEMMA TeamNames ==
  ASSUME TeamTypeOK, CallsTyped
  PROVE  /\ None \notin Subjects /\ live \in Subjects /\ gone \subseteq Subjects \ {live}
         /\ grant.gen \in Nat
         /\ grant.gen # 0 => grant.gen \in 1..MaxGen
         /\ grant.role \in Roles
         /\ \A s \in Subjects : Accepting(s) =>
               call[s].gen \in 1..MaxGen /\ call[s].gen \in Nat /\ call[s].role \in Roles
         /\ \A x \in consents : x.gen \in Nat /\ x.subject \in Subjects
<1>1. None \notin Subjects /\ live \in Subjects /\ gone \subseteq Subjects \ {live}
  BY TeamAssumption DEF TeamTypeOK
<1>2. /\ grant.gen \in Nat /\ grant.role \in Roles
      /\ grant.gen # 0 => grant.gen \in 1..MaxGen
  BY TeamAssumption DEF TeamTypeOK, TeamGrants
<1>3. ASSUME NEW s \in Subjects, Accepting(s)
      PROVE  call[s].gen \in 1..MaxGen /\ call[s].gen \in Nat /\ call[s].role \in Roles
  <2>1. call[s] \in CallShapes
    BY DEF CallsTyped
  <2>2. call[s].gen \in 1..MaxGen /\ call[s].role \in Roles
    BY <1>3, <2>1 DEF CallShapes, Accepting
  <2> QED BY <2>2, TeamAssumption
<1>4. ASSUME NEW x \in consents
      PROVE  x.gen \in Nat /\ x.subject \in Subjects
  BY TeamAssumption DEF TeamTypeOK
<1> QED BY <1>1, <1>2, <1>3, <1>4

\* A new identity owns the address.
LEMMA ReplaceIdentityStep ==
  ASSUME TeamInv, TeamTypeOK', CallsTyped', NEW s \in Subjects, ReplaceIdentity(s)
  PROVE  TeamInv'
<1> USE TeamNames DEF TeamInv
<1>1. /\ s \notin gone /\ s # live /\ live' = s /\ gone' = gone \cup {live}
      /\ UNCHANGED << grant, user, membership, receipts, call, consents >>
  BY DEF ReplaceIdentity
<1>2. InvitationsKnown'
  BY <1>1 DEF InvitationsKnown, Accepting, OfInvitation
<1>3. SubjectsKnown'
  BY <1>1 DEF SubjectsKnown
<1>4. call'[s].pc = "idle" /\ grant.subject # s
  BY <1>1 DEF SubjectsKnown
<1>5. NewestIsLive' /\ AcceptedSelf'
  BY <1>1, <1>4 DEF NewestIsLive, AcceptedSelf, Accepting
<1> QED BY <1>2, <1>3, <1>5

\* An invitation is sent.
LEMMA InviteStep ==
  ASSUME TeamInv, TeamTypeOK', CallsTyped', NEW r \in Roles, NEW s \in Subjects \cup {None},
         Invite(r, s)
  PROVE  TeamInv'
<1> USE TeamNames DEF TeamInv
<1>1. /\ grant'.gen = grant.gen + 1 /\ grant'.status = "pending" /\ grant'.subject = s
      /\ s \in {None, live}
      /\ UNCHANGED << live, gone, membership, receipts, call, consents >>
  BY DEF Invite
<1>2. InvitationsKnown'
  BY <1>1 DEF InvitationsKnown, Accepting, OfInvitation
<1>3. SubjectsKnown' /\ NewestIsLive'
  BY <1>1 DEF SubjectsKnown, NewestIsLive, Accepting
<1>4. ~Underway'
  BY <1>1 DEF Underway, Accepting, InvitationsKnown, OfInvitation
<1>5. AcceptedSelf'
  BY <1>4 DEF AcceptedSelf
<1> QED BY <1>2, <1>3, <1>5

\* The console and the administrators: the invitation stays the same or is revoked,
\* and the membership stays in its workspace.
LEMMA ConsoleStep ==
  ASSUME TeamInv, TeamTypeOK', CallsTyped',
         grant'.gen = grant.gen, grant'.role = grant.role, grant'.subject = grant.subject,
         grant'.status \in {grant.status, "revoked"},
         membership'.org = membership.org,
         membership.org = "own" => membership'.role = membership.role,
         UNCHANGED << live, gone, receipts, call, consents >>
  PROVE  TeamInv'
<1> USE TeamNames DEF TeamInv
<1>1. InvitationsKnown'
  BY DEF InvitationsKnown, Accepting, OfInvitation
<1>2. SubjectsKnown' /\ NewestIsLive'
  BY DEF SubjectsKnown, NewestIsLive, Accepting
<1>3. AcceptedSelf'
  BY DEF AcceptedSelf, Underway, Accepting
<1> QED BY <1>1, <1>2, <1>3

\* A request that is not, or no longer, accepting goes on.
LEMMA CallGoesStep ==
  ASSUME TeamInv, TeamTypeOK', CallsTyped', NEW s \in Subjects, NEW c, CallBecomes(s, c),
         s \in gone \cup {live},
         \/ c.pc \in {"idle", "sign up", "create"}
         \/ Accepting(s) /\ c.pc = "write" /\ c.gen = call[s].gen /\ c.role = call[s].role,
         \/ membership' = membership
         \/ membership'.org = "own" /\ membership'.role = "owner",
         UNCHANGED << live, gone, grant, receipts, consents >>
  PROVE  TeamInv'
<1> USE TeamNames DEF TeamInv, CallBecomes
<1>1. InvitationsKnown'
  BY DEF InvitationsKnown, Accepting, OfInvitation
<1>2. SubjectsKnown'
  BY ZenonT(60) DEF SubjectsKnown
<1>3. NewestIsLive'
  BY DEF NewestIsLive, Accepting
<1>4. Underway' => Underway
  BY DEF Underway, Accepting
<1>5. AcceptedSelf'
  BY <1>4 DEF AcceptedSelf, Accepting
<1> QED BY <1>1, <1>2, <1>3, <1>5

\* The live identity begins to accept.
LEMMA AcceptRowStep ==
  ASSUME TeamInv, TeamTypeOK', CallsTyped', NEW s \in Subjects, AcceptRow(s)
  PROVE  TeamInv'
<1> USE TeamNames DEF TeamInv, CallBecomes
<1> DEFINE c == [pc |-> "lookup", gen |-> grant.gen, role |-> grant.role,
                 own |-> grant.subject = s]
<1>1. /\ s = live /\ call[s].pc = "idle" /\ CallBecomes(s, c)
      /\ c.pc = "lookup" /\ c.gen = grant.gen /\ c.role = grant.role
      /\ UNCHANGED << live, gone, grant, membership, receipts, consents >>
  BY DEF AcceptRow, Step, Idle, TeamTypeOK
<1> HIDE DEF c
<1>2. InvitationsKnown'
  BY <1>1 DEF InvitationsKnown, Accepting, OfInvitation
<1>3. SubjectsKnown'
  BY <1>1 DEF SubjectsKnown
<1>4. NewestIsLive'
  BY <1>1 DEF NewestIsLive, Accepting, InvitationsKnown, OfInvitation
<1>5. Underway' => Underway
  BY <1>1 DEF Underway, Accepting
<1>6. AcceptedSelf'
  BY <1>1, <1>5 DEF AcceptedSelf
<1> QED BY <1>2, <1>3, <1>4, <1>6

\* The batch of an acceptance.
LEMMA AcceptWriteStep ==
  ASSUME TeamInv, TeamTypeOK', CallsTyped', NEW s \in Subjects, AcceptWrite(s),
         ~(user.status # "none" /\ user.id # call[s].id)
  PROVE  TeamInv'
<1> USE TeamNames DEF TeamInv, CallBecomes
<1> DEFINE k == [gen |-> call[s].gen, role |-> call[s].role, subject |-> s]
           w == [gen |-> call[s].gen, role |-> call[s].role]
<1>1. /\ call[s].pc = "write" /\ call'[s].pc = "finalize"
      /\ \A t \in Subjects \ {s} : call'[t] = call[t]
      /\ receipts' = IF \E x \in receipts : x.gen = call[s].gen THEN receipts
                     ELSE receipts \cup {w}
      /\ consents' = consents \cup {k}
      /\ membership'.org = "own" => membership' = membership
      /\ UNCHANGED << live, gone, grant >>
  BY DEF AcceptWrite, Step, Joined, TeamTypeOK
<1>2. /\ k.gen = call[s].gen /\ k.role = call[s].role /\ k.subject = s /\ w.gen = call[s].gen
      /\ s \in gone \cup {live} /\ Accepting(s)
  BY <1>1 DEF SubjectsKnown, Accepting
<1> HIDE DEF k, w
<1>3. InvitationsKnown'
  BY <1>1, <1>2 DEF InvitationsKnown, Accepting, OfInvitation
<1>4. SubjectsKnown' /\ NewestIsLive'
  BY <1>1, <1>2 DEF SubjectsKnown, NewestIsLive, Accepting
<1>5. AcceptedSelf'
  <2>1. CASE s # live
    <3>1. Underway' => Underway
      BY <1>1, <1>2, <2>1 DEF Underway, Accepting
    <3> QED BY <1>1, <2>1, <3>1 DEF AcceptedSelf
  <2>2. CASE s = live /\ call[s].gen = grant.gen
    BY <1>1, <1>2, <2>2 DEF AcceptedSelf
  <2>3. CASE s = live /\ call[s].gen # grant.gen
    <3>1. call[s].gen < grant.gen
      BY <1>2, <2>3 DEF InvitationsKnown, OfInvitation
    <3>2. \A t \in Subjects \ {live} : Accepting(t) => call[t].gen # grant.gen
      BY <1>2, <2>3, <3>1 DEF NewestIsLive
    <3>3. \A x \in consents : x.gen = grant.gen => x.subject = live
      BY <1>2, <2>3, <3>1 DEF NewestIsLive
    <3> QED BY <1>1, <1>2, <2>3, <3>2, <3>3 DEF AcceptedSelf, Underway, Accepting
  <2> QED BY <2>1, <2>2, <2>3
<1> QED BY <1>3, <1>4, <1>5

\* The console is told of it, or not.
LEMMA AcceptFinalizeStep ==
  ASSUME TeamInv, TeamTypeOK', CallsTyped', NEW s \in Subjects, AcceptFinalize(s)
  PROVE  TeamInv'
<1> USE TeamNames DEF TeamInv
<1>1. /\ call[s].pc = "finalize" /\ call'[s].pc = "idle"
      /\ \A t \in Subjects \ {s} : call'[t] = call[t]
      /\ UNCHANGED << live, gone, membership, receipts, consents >>
      /\ \/ grant' = grant
         \/ /\ s = live /\ IdentityAllowed(s) /\ grant'.gen = grant.gen
            /\ grant'.role = grant.role /\ grant'.subject = s
  BY DEF AcceptFinalize, Step, Idle, TeamTypeOK, TeamGrants
<1>2. InvitationsKnown'
  BY <1>1 DEF InvitationsKnown, Accepting, OfInvitation, IdentityAllowed
<1>3. SubjectsKnown' /\ NewestIsLive'
  BY <1>1 DEF SubjectsKnown, NewestIsLive, Accepting
<1>4. Underway' => Underway
  BY <1>1 DEF Underway, Accepting
<1>5. AcceptedSelf'
  BY <1>1, <1>4 DEF AcceptedSelf
<1> QED BY <1>2, <1>3, <1>5


-----------------------------------------------------------------------------
(* Types.                                                                   *)

\* A request's next state has a type; so has the table of requests.
LEMMA CallTyping ==
  ASSUME TeamTypeOK, CallsTyped, NEW s \in Subjects, NEW c, Step(s, c)
  PROVE  /\ CallBecomes(s, c) /\ DOMAIN call' = Subjects
         /\ c \in CallShapes => CallsTyped'
<1>1. call' = [call EXCEPT ![s] = c] /\ call \in [Subjects -> CallShapes]
  BY DEF Step, CallsTyped
<1>2. CallBecomes(s, c) /\ DOMAIN call' = Subjects
  BY <1>1 DEF CallBecomes
<1>3. c \in CallShapes => CallsTyped'
  BY <1>1 DEF CallsTyped
<1> QED BY <1>2, <1>3

LEMMA IdleShapes ==
  /\ Idle \in CallShapes /\ Idle.pc = "idle"
  /\ [pc |-> "finalize"] \in CallShapes /\ [pc |-> "create"] \in CallShapes
BY DEF Idle, CallShapes

\* The shape of a request says what it carries.
LEMMA ShapeOfCall ==
  ASSUME CallsTyped, NEW s \in Subjects
  PROVE  /\ call[s].pc = "lookup" => call[s].gen \in 1..MaxGen /\ call[s].role \in Roles
         /\ call[s].pc = "write" =>
               call[s].gen \in 1..MaxGen /\ call[s].role \in Roles
               /\ call[s].id \in Subjects \cup {None}
         /\ call[s].pc = "sign up" => call[s].id \in Subjects \cup {None}
<1>1. call[s] \in CallShapes
  BY DEF CallsTyped
<1> QED BY <1>1 DEF CallShapes

\* Edits of single fields keep the rows' types.
LEMMA RowEdits ==
  ASSUME TeamTypeOK
  PROVE  /\ \A op \in {"revoke", "delete"} : [grant EXCEPT !.op = op] \in TeamGrants
         /\ [grant EXCEPT !.status = "revoked", !.op = None] \in TeamGrants
         /\ \A s \in Subjects :
               [grant EXCEPT !.status = "accepted", !.subject = s] \in TeamGrants
         /\ \A s \in Subjects : [user EXCEPT !.subject = s] \in TeamUsers
         /\ [user EXCEPT !.status = "suspended"] \in TeamUsers
         /\ [membership EXCEPT !.status = "suspended"] \in TeamMemberships
         /\ \A r \in Roles, st \in {"active", "suspended"} :
               [membership EXCEPT !.role = r, !.status = st] \in TeamMemberships
BY DEF TeamTypeOK, TeamGrants, TeamUsers, TeamMemberships

LEMMA FreshRows ==
  ASSUME TeamTypeOK
  PROVE  /\ \A s \in Subjects, id \in Subjects \cup {None} :
               [subject |-> s, id |-> id, status |-> "active"] \in TeamUsers
         /\ \A r \in Roles : [org |-> "team", role |-> r, status |-> "active"]
                               \in TeamMemberships
         /\ [org |-> "own", role |-> "owner", status |-> "active"] \in TeamMemberships
BY DEF TeamUsers, TeamMemberships

-----------------------------------------------------------------------------
(* The actions.                                                             *)

LEMMA TeamInitInv == ASSUME TeamInit PROVE TeamInv
<1>1. (CHOOSE r \in Roles : TRUE) \in Roles /\ None \notin Subjects
  BY TeamAssumption
<1>2. grant \in TeamGrants /\ user \in TeamUsers /\ membership \in TeamMemberships
  BY <1>1, TeamAssumption DEF TeamInit, TeamGrants, TeamUsers, TeamMemberships
<1>3. TeamTypeOK
  BY <1>2, TeamAssumption DEF TeamInit, TeamTypeOK
<1>4. CallsTyped /\ \A s \in Subjects : call[s].pc = "idle"
  BY IdleShapes DEF TeamInit, CallsTyped
<1>5. InvitationsKnown /\ SubjectsKnown /\ NewestIsLive /\ AcceptedSelf
  <2>1. /\ gone = {} /\ grant.gen = 0 /\ grant.status = "none" /\ grant.subject = None
        /\ membership.org = "none" /\ receipts = {} /\ consents = {} /\ live \in Subjects
    BY DEF TeamInit
  <2>2. InvitationsKnown
    BY <1>4, <2>1 DEF InvitationsKnown, Accepting
  <2>3. SubjectsKnown
    BY <1>4, <2>1 DEF SubjectsKnown
  <2>4. NewestIsLive /\ AcceptedSelf
    BY <1>4, <2>1 DEF NewestIsLive, AcceptedSelf, Accepting
  <2> QED BY <2>2, <2>3, <2>4
<1> QED BY <1>3, <1>4, <1>5 DEF TeamInv

LEMMA ReplaceIdentityAction ==
  ASSUME TeamInv, NEW s \in Subjects, ReplaceIdentity(s) PROVE TeamInv'
<1>1. TeamTypeOK' /\ CallsTyped'
  BY DEF ReplaceIdentity, TeamInv, TeamTypeOK, CallsTyped
<1> QED BY <1>1, ReplaceIdentityStep

LEMMA InviteAction ==
  ASSUME TeamInv, NEW r \in Roles, NEW s \in Subjects \cup {None}, Invite(r, s) PROVE TeamInv'
<1>1. grant.gen \in 0..MaxGen /\ grant.gen < MaxGen
  BY DEF TeamInv, TeamTypeOK, TeamGrants, Invite
<1>2. grant' \in TeamGrants
  BY <1>1, TeamAssumption DEF Invite, TeamGrants
<1>3. TeamTypeOK' /\ CallsTyped'
  BY <1>2 DEF Invite, TeamInv, TeamTypeOK, CallsTyped
<1> QED BY <1>3, InviteStep

LEMMA BeginRemovalAction ==
  ASSUME TeamInv, NEW op \in {"revoke", "delete"}, BeginRemoval(op) PROVE TeamInv'
<1>1. TeamTypeOK
  BY DEF TeamInv
<1>2. /\ grant' = [grant EXCEPT !.op = op] /\ edits' = edits + 1 /\ edits < MaxEdits
      /\ UNCHANGED << live, gone, user, membership, member, receipts, removal, call, consents >>
  BY DEF BeginRemoval
<1>3. grant' \in TeamGrants /\ edits' \in 0..MaxEdits
  <2>1. grant' \in TeamGrants
    BY <1>1, <1>2, RowEdits
  <2>2. edits' \in 0..MaxEdits
    BY <1>1, <1>2, TeamAssumption DEF TeamTypeOK
  <2> QED BY <2>1, <2>2
<1>4. TeamTypeOK' /\ CallsTyped'
  BY <1>2, <1>3 DEF TeamInv, TeamTypeOK, CallsTyped
<1>5. /\ grant'.gen = grant.gen /\ grant'.role = grant.role /\ grant'.subject = grant.subject
      /\ grant'.status = grant.status
  BY <1>1, <1>2 DEF TeamTypeOK, TeamGrants
<1> QED BY <1>2, <1>4, <1>5, ConsoleStep

LEMMA ManageReadAction == ASSUME TeamInv, ManageRead PROVE TeamInv'
<1>1. UNCHANGED << live, gone, grant, user, membership, member, receipts, removal, call,
                   edits, consents >>
  BY DEF ManageRead
<1>2. TeamTypeOK' /\ CallsTyped'
  BY <1>1 DEF TeamInv, TeamTypeOK, CallsTyped
<1> QED BY <1>1, <1>2, ConsoleStep

LEMMA ManageWriteAction == ASSUME TeamInv, ManageWrite PROVE TeamInv'
<1>1. TeamTypeOK
  BY DEF TeamInv
<1>2. /\ grant' = [grant EXCEPT !.status = "revoked", !.op = None]
      /\ UNCHANGED << live, gone, receipts, call, edits, consents >>
  BY DEF ManageWrite
<1>3. /\ user' \in {user, [user EXCEPT !.status = "suspended"]}
      /\ membership' \in {membership, [membership EXCEPT !.status = "suspended"]}
      /\ member' \in {member, "archived", "suspended"}
      /\ removal' \in {removal, "deleted", "revoked"}
  BY DEF ManageWrite, MemberAfter
<1>4. /\ grant' \in TeamGrants /\ user' \in TeamUsers /\ membership' \in TeamMemberships
      /\ membership'.org = membership.org /\ membership'.role = membership.role
  <2>1. grant' \in TeamGrants
    BY <1>1, <1>2, RowEdits
  <2>2. user' \in TeamUsers /\ membership' \in TeamMemberships
    BY <1>1, <1>3, RowEdits DEF TeamTypeOK
  <2>3. membership'.org = membership.org /\ membership'.role = membership.role
    BY <1>1, <1>3 DEF TeamTypeOK, TeamMemberships
  <2> QED BY <2>1, <2>2, <2>3
<1>5. TeamTypeOK'
  BY <1>1, <1>2, <1>3, <1>4 DEF TeamTypeOK
<1>6. CallsTyped'
  BY <1>2 DEF TeamInv, CallsTyped
<1>7. /\ grant'.gen = grant.gen /\ grant'.role = grant.role /\ grant'.subject = grant.subject
      /\ grant'.status = "revoked"
  BY <1>1, <1>2 DEF TeamTypeOK, TeamGrants
<1> QED BY <1>2, <1>4, <1>5, <1>6, <1>7, ConsoleStep

LEMMA UpdateEmployeeAction ==
  ASSUME TeamInv, NEW st \in {"active", "suspended", "archived"}, NEW r \in Roles,
         UpdateEmployee(st, r)
  PROVE  TeamInv'
<1>1. TeamTypeOK
  BY DEF TeamInv
<1>2. /\ member' = st /\ edits' = edits + 1 /\ edits < MaxEdits
      /\ UNCHANGED << live, gone, grant, user, receipts, removal, call, consents >>
  BY DEF UpdateEmployee
<1>3. \/ membership' = membership
      \/ /\ membership.org = "team"
         /\ \E m \in {"active", "suspended"} :
               membership' = [membership EXCEPT !.role = r, !.status = m]
  BY DEF UpdateEmployee
<1>4. /\ membership' \in TeamMemberships /\ edits' \in 0..MaxEdits
      /\ membership'.org = membership.org
      /\ membership.org = "own" => membership'.role = membership.role
  <2>1. membership' \in TeamMemberships
    <3>1. \A m \in {"active", "suspended"} :
             [membership EXCEPT !.role = r, !.status = m] \in TeamMemberships
      BY <1>1, RowEdits
    <3> QED BY <1>1, <1>3, <3>1 DEF TeamTypeOK
  <2>2. edits' \in 0..MaxEdits
    BY <1>1, <1>2, TeamAssumption DEF TeamTypeOK
  <2>3. /\ membership'.org = membership.org
        /\ membership.org = "own" => membership'.role = membership.role
    BY <1>1, <1>3 DEF TeamTypeOK, TeamMemberships
  <2> QED BY <2>1, <2>2, <2>3
<1>5. TeamTypeOK'
  BY <1>1, <1>2, <1>4 DEF TeamTypeOK
<1>6. CallsTyped'
  BY <1>2 DEF TeamInv, CallsTyped
<1> QED BY <1>2, <1>4, <1>5, <1>6, ConsoleStep

LEMMA AcceptRowAction ==
  ASSUME TeamInv, NEW s \in Subjects, AcceptRow(s) PROVE TeamInv'
<1> DEFINE own == grant.subject = s
           c == [pc |-> "lookup", gen |-> grant.gen, role |-> grant.role, own |-> own]
<1>1. /\ Step(s, c) /\ grant.status \in {"pending", "accepted"}
      /\ UNCHANGED << live, gone, grant, user, membership, member, receipts, removal, edits,
                      consents >>
  BY DEF AcceptRow, IdentityAllowed
<1>2. grant.gen \in 1..MaxGen /\ grant.role \in Roles
  BY <1>1, TeamNames DEF TeamInv, InvitationsKnown
<1>3. own \in BOOLEAN
  OBVIOUS
<1>4. c \in CallShapes
  <2> HIDE DEF own
  <2> QED BY <1>2, <1>3 DEF CallShapes
<1> HIDE DEF c
<1>5. CallsTyped' /\ DOMAIN call' = Subjects
  BY <1>1, <1>4, CallTyping DEF TeamInv
<1>6. TeamTypeOK'
  BY <1>1, <1>5 DEF TeamInv, TeamTypeOK
<1> QED BY <1>5, <1>6, AcceptRowStep

\* A step of a request that touches the local rows at most.
LEMMA CallGoesAction ==
  ASSUME TeamInv, NEW s \in Subjects, NEW c \in CallShapes, Step(s, c),
         call[s].pc # "idle" \/ s = live,
         \/ c.pc \in {"idle", "sign up", "create"}
         \/ Accepting(s) /\ c.pc = "write" /\ c.gen = call[s].gen /\ c.role = call[s].role,
         user' \in TeamUsers,
         \/ membership' = membership
         \/ membership' = [org |-> "own", role |-> "owner", status |-> "active"],
         UNCHANGED << live, gone, grant, member, receipts, removal, edits, consents >>
  PROVE  TeamInv'
<1>1. TeamTypeOK /\ CallsTyped /\ SubjectsKnown
  BY DEF TeamInv
<1>2. CallBecomes(s, c) /\ DOMAIN call' = Subjects /\ CallsTyped'
  BY <1>1, CallTyping
<1>3. s \in gone \cup {live}
  BY <1>1 DEF SubjectsKnown
<1>4. membership' \in TeamMemberships
  BY <1>1, FreshRows DEF TeamTypeOK
<1>5. TeamTypeOK'
  BY <1>1, <1>2, <1>4 DEF TeamTypeOK
<1>6. \/ membership' = membership
      \/ membership'.org = "own" /\ membership'.role = "owner"
  <2> DEFINE itsOwner == [org |-> "own", role |-> "owner", status |-> "active"]
  <2>1. itsOwner.org = "own" /\ itsOwner.role = "owner"
    OBVIOUS
  <2> HIDE DEF itsOwner
  <2>2. membership' = membership \/ membership' = itsOwner
    BY DEF itsOwner
  <2> QED BY <2>1, <2>2
<1> QED BY <1>2, <1>3, <1>5, <1>6, CallGoesStep

LEMMA AcceptLookupAction ==
  ASSUME TeamInv, NEW s \in Subjects, AcceptLookup(s) PROVE TeamInv'
<1> DEFINE id == IF user.status = "none" THEN s ELSE user.id
           bound == user.subject \notin {None, s}
           prior == IF bound THEN user.subject ELSE None
           c == [pc |-> "write", gen |-> call[s].gen, role |-> call[s].role, id |-> id,
                 prior |-> prior]
<1>1. TeamTypeOK /\ CallsTyped
  BY DEF TeamInv
<1>2. /\ call[s].pc = "lookup" /\ (Step(s, c) \/ Step(s, Idle))
      /\ UNCHANGED << live, gone, grant, user, membership, member, receipts, removal, edits,
                      consents >>
  BY DEF AcceptLookup
<1>3. id \in Subjects \cup {None} /\ prior \in Subjects \cup {None}
  BY <1>1 DEF TeamTypeOK, TeamUsers
<1>4. call[s].gen \in 1..MaxGen /\ call[s].role \in Roles
  BY <1>1, <1>2, ShapeOfCall
<1> HIDE DEF id, prior
<1>5. /\ c \in CallShapes /\ c.pc = "write" /\ c.gen = call[s].gen /\ c.role = call[s].role
  BY <1>3, <1>4 DEF CallShapes
<1>6. user' \in TeamUsers /\ membership' = membership
  BY <1>1, <1>2 DEF TeamTypeOK
<1> HIDE DEF c
<1>7. CASE Step(s, c)
  BY <1>2, <1>5, <1>6, <1>7, CallGoesAction DEF Accepting
<1>8. CASE Step(s, Idle)
  BY <1>2, <1>6, <1>8, IdleShapes, CallGoesAction
<1> QED BY <1>2, <1>7, <1>8

LEMMA AcceptWriteAction ==
  ASSUME TeamInv, NEW s \in Subjects, AcceptWrite(s) PROVE TeamInv'
<1>1. TeamTypeOK /\ CallsTyped
  BY DEF TeamInv
<1>2. CASE user.status # "none" /\ user.id # call[s].id
  <2>1. /\ call[s].pc = "write" /\ Step(s, Idle)
        /\ UNCHANGED << live, gone, grant, user, membership, member, receipts, removal, edits,
                        consents >>
    BY <1>2 DEF AcceptWrite
  <2>2. user' \in TeamUsers
    BY <1>1, <2>1 DEF TeamTypeOK
  <2> QED BY <2>1, <2>2, IdleShapes, CallGoesAction
<1>3. CASE ~(user.status # "none" /\ user.id # call[s].id)
  <2> DEFINE w == [gen |-> call[s].gen, role |-> call[s].role]
             k == [gen |-> call[s].gen, role |-> call[s].role, subject |-> s]
  <2>1. /\ call[s].pc = "write" /\ Step(s, [pc |-> "finalize"])
        /\ user' \in {user, [subject |-> s, id |-> call[s].id, status |-> "active"]}
        /\ membership' \in {membership,
                            [org |-> "team", role |-> call[s].role, status |-> "active"]}
        /\ member' = "active"
        /\ receipts' \in {receipts, receipts \cup {w}}
        /\ consents' = consents \cup {k}
        /\ UNCHANGED << live, gone, grant, removal, edits >>
    BY <1>3 DEF AcceptWrite, Joined
  <2>2. /\ call[s].gen \in 1..MaxGen /\ call[s].role \in Roles
        /\ call[s].id \in Subjects \cup {None}
    BY <1>1, <2>1, ShapeOfCall
  <2>3. user' \in TeamUsers /\ membership' \in TeamMemberships
    BY <1>1, <2>1, <2>2, FreshRows DEF TeamTypeOK
  <2>4. w \in [gen : 1..MaxGen, role : Roles]
        /\ k \in [gen : 1..MaxGen, role : Roles, subject : Subjects]
    BY <2>2
  <2> HIDE DEF w, k
  <2>5. CallsTyped' /\ DOMAIN call' = Subjects
    BY <1>1, <2>1, IdleShapes, CallTyping
  <2>6. TeamTypeOK'
    BY <1>1, <2>1, <2>3, <2>4, <2>5 DEF TeamTypeOK
  <2> QED BY <1>3, <2>5, <2>6, AcceptWriteStep
<1> QED BY <1>2, <1>3

LEMMA AcceptFinalizeAction ==
  ASSUME TeamInv, NEW s \in Subjects, AcceptFinalize(s) PROVE TeamInv'
<1>1. TeamTypeOK /\ CallsTyped
  BY DEF TeamInv
<1>2. /\ Step(s, Idle)
      /\ grant' \in {grant, [grant EXCEPT !.status = "accepted", !.subject = s]}
      /\ UNCHANGED << live, gone, user, membership, member, receipts, removal, edits,
                      consents >>
  BY DEF AcceptFinalize
<1>3. grant' \in TeamGrants
  BY <1>1, <1>2, RowEdits DEF TeamTypeOK
<1>4. CallsTyped' /\ DOMAIN call' = Subjects
  BY <1>1, <1>2, IdleShapes, CallTyping
<1>5. TeamTypeOK'
  BY <1>1, <1>2, <1>3, <1>4 DEF TeamTypeOK
<1> QED BY <1>4, <1>5, AcceptFinalizeStep

LEMMA OnboardAction ==
  ASSUME TeamInv, NEW s \in Subjects,
         OnboardRead(s) \/ OnboardUser(s) \/ OnboardWorkspace(s)
  PROVE  TeamInv'
<1>1. TeamTypeOK /\ CallsTyped
  BY DEF TeamInv
<1>2. CASE OnboardRead(s)
  <2> DEFINE id == IF user.status = "none" THEN s ELSE user.id
             c == [pc |-> "sign up", id |-> id]
  <2>1. /\ s = live /\ Step(s, c)
        /\ UNCHANGED << live, gone, grant, user, membership, member, receipts, removal, edits,
                        consents >>
    BY <1>2 DEF OnboardRead
  <2>2. id \in Subjects \cup {None} /\ user' \in TeamUsers
    BY <1>1, <2>1 DEF TeamTypeOK, TeamUsers
  <2> HIDE DEF id
  <2>3. c \in CallShapes /\ c.pc = "sign up"
    BY <2>2 DEF CallShapes
  <2> HIDE DEF c
  <2> QED BY <2>1, <2>2, <2>3, CallGoesAction
<1>3. CASE OnboardUser(s)
  <2> DEFINE c == IF user.status = "suspended" THEN Idle ELSE [pc |-> "create"]
  <2>1. /\ call[s].pc = "sign up" /\ Step(s, c)
        /\ user' \in {[subject |-> s, id |-> call[s].id, status |-> "active"],
                      [user EXCEPT !.subject = s]}
        /\ UNCHANGED << live, gone, grant, membership, member, receipts, removal, edits,
                        consents >>
    BY <1>3 DEF OnboardUser
  <2>2. user' \in TeamUsers
    BY <1>1, <2>1, ShapeOfCall, FreshRows, RowEdits
  <2>3. c \in CallShapes /\ c.pc \in {"idle", "create"}
    BY IdleShapes
  <2> HIDE DEF c
  <2> QED BY <2>1, <2>2, <2>3, CallGoesAction
<1>4. CASE OnboardWorkspace(s)
  <2>1. /\ call[s].pc = "create" /\ Step(s, Idle)
        /\ membership' \in {membership,
                            [org |-> "own", role |-> "owner", status |-> "active"]}
        /\ UNCHANGED << live, gone, grant, user, member, receipts, removal, edits, consents >>
    BY <1>4 DEF OnboardWorkspace
  <2>2. user' \in TeamUsers
    BY <1>1, <2>1 DEF TeamTypeOK
  <2> QED BY <2>1, <2>2, IdleShapes, CallGoesAction
<1> QED BY <1>2, <1>3, <1>4

-----------------------------------------------------------------------------
(* The theorems.                                                            *)

THEOREM TeamInvariant == TeamSpec => []TeamInv
<1>1. TeamInv /\ [TeamNext]_teamVars => TeamInv'
  <2> SUFFICES ASSUME TeamInv, [TeamNext]_teamVars PROVE TeamInv'
    OBVIOUS
  <2>1. CASE UNCHANGED teamVars
    BY <2>1 DEF teamVars, TeamInv, TeamTypeOK, CallsTyped, InvitationsKnown, SubjectsKnown,
                NewestIsLive, AcceptedSelf, Underway, Accepting, OfInvitation
  <2>2. CASE TeamNext
    BY <2>2, ReplaceIdentityAction, InviteAction, BeginRemovalAction, ManageReadAction,
       ManageWriteAction, UpdateEmployeeAction, AcceptRowAction, AcceptLookupAction,
       AcceptWriteAction, AcceptFinalizeAction, OnboardAction
    DEF TeamNext, AcceptNext
  <2> QED BY <2>1, <2>2
<1> QED BY <1>1, TeamInitInv, PTL DEF TeamSpec

\* Who is in accepted the current invitation itself, in the role it now has: an
\* acceptance that was in flight when the owner removed the colleague, invited them
\* again, or when the identity was replaced, gives nothing (findAccessContext,
\* liveTeamMembershipAllowed).
THEOREM AccessStandsOnConsent == TeamSpec => []AccessIsSound
<1>1. TeamInv => AccessIsSound
  <2> SUFFICES ASSUME TeamInv, NEW s \in Subjects, Access(s), membership.org = "team"
               PROVE  /\ grant.status = "accepted" /\ grant.op = None
                      /\ [gen |-> grant.gen, role |-> membership.role, subject |-> s]
                            \in consents
    BY DEF TeamInv, AccessIsSound, AccessIsGranted
  <2>1. TeamTypeOK /\ InvitationsKnown /\ AcceptedSelf /\ s = live
    BY DEF TeamInv, Access
  <2>2. /\ grant.status = "accepted" /\ grant.op = None /\ grant.subject = s
        /\ grant.role = membership.role
        /\ [gen |-> grant.gen, role |-> grant.role] \in receipts
    BY <2>1, TeamNames DEF TeamInv, Access, LiveAllowed, InvitationsKnown, IdentityAllowed,
                           Provisioned
  <2>3. PICK y \in consents : y.gen = grant.gen
    BY <2>1, <2>2 DEF InvitationsKnown
  <2>4. PICK x \in consents : x.gen = grant.gen /\ x.subject = live
    BY <2>1, <2>2, <2>3 DEF AcceptedSelf, Underway
  <2>5. x.role = grant.role
    BY <2>1, <2>4 DEF InvitationsKnown, OfInvitation
  <2>6. x = [gen |-> x.gen, role |-> x.role, subject |-> x.subject]
    BY <2>1 DEF TeamTypeOK
  <2> QED BY <2>1, <2>2, <2>4, <2>5, <2>6
<1> QED BY <1>1, TeamInvariant, PTL

\* No acceptance moves an owner out of a workspace of its own, nor takes an address
\* from an account that is active under another identity (the two upserts' WHERE).
THEOREM NothingTaken == TeamSpec => NothingIsTakenOver
<1>1. TeamInv /\ [TeamNext]_teamVars =>
        [membership.org = "own" => /\ membership'.org = "own"
                                   /\ membership'.role = "owner"]_teamVars
  <2> SUFFICES ASSUME TeamInv, TeamNext, membership.org = "own"
               PROVE  membership'.org = "own" /\ membership'.role = "owner"
    BY DEF teamVars
  <2>1. membership.role = "owner" /\ membership \in TeamMemberships
    BY DEF TeamInv, InvitationsKnown, TeamTypeOK
  <2>2. membership' \in {membership, [membership EXCEPT !.status = "suspended"]}
    BY DEF TeamNext, ReplaceIdentity, Invite, BeginRemoval, ManageRead, ManageWrite,
           UpdateEmployee, AcceptNext, AcceptRow, AcceptLookup, AcceptWrite, Joined,
           AcceptFinalize, OnboardRead, OnboardUser, OnboardWorkspace
  <2> QED BY <2>1, <2>2 DEF TeamMemberships
<1>2. TeamInv /\ [TeamNext]_teamVars =>
        [\A s \in Subjects :
            /\ call[s].pc = "write" /\ call'[s].pc = "finalize"
            /\ user.status = "active"
            => user.subject \in {None, s, user'.subject}]_teamVars
  <2> SUFFICES ASSUME TeamInv, TeamNext, NEW s \in Subjects,
                      call[s].pc = "write", call'[s].pc = "finalize", user.status = "active"
               PROVE  user.subject \in {None, s, user'.subject}
    BY DEF teamVars
  <2>1. \A t \in Subjects : (\E c : Step(t, c)) /\ t # s => call'[s] = call[s]
    BY DEF Step, TeamInv, TeamTypeOK
  <2>2. call' # call
    OBVIOUS
  <2>3. PICK t \in Subjects : AcceptNext(t) \/ OnboardRead(t) \/ OnboardUser(t)
                              \/ OnboardWorkspace(t)
    BY <2>2 DEF TeamNext, ReplaceIdentity, Invite, BeginRemoval, ManageRead, ManageWrite,
                UpdateEmployee
  <2>4. t = s
    <3>1. \E c : Step(t, c)
      BY <2>3 DEF AcceptNext, AcceptRow, AcceptLookup, AcceptWrite, AcceptFinalize,
                  OnboardRead, OnboardUser, OnboardWorkspace
    <3> QED BY <2>1, <3>1
  <2>5. AcceptWrite(s)
    <3>1. /\ AcceptRow(s) \/ OnboardRead(s) => call[s] = Idle
          /\ AcceptLookup(s) => call[s].pc = "lookup"
          /\ AcceptFinalize(s) => call[s].pc = "finalize"
          /\ OnboardUser(s) => call[s].pc = "sign up"
          /\ OnboardWorkspace(s) => call[s].pc = "create"
      BY DEF AcceptRow, AcceptLookup, AcceptFinalize, OnboardRead, OnboardUser,
             OnboardWorkspace
    <3> QED BY <2>3, <2>4, <3>1, IdleShapes DEF AcceptNext
  <2> QED BY <2>5 DEF AcceptWrite, UserTaken
<1>3. TeamSpec => [][membership.org = "own" => /\ membership'.org = "own"
                                               /\ membership'.role = "owner"]_teamVars
  BY <1>1, TeamInvariant, PTL DEF TeamSpec
<1>4. TeamSpec => [][\A s \in Subjects :
            /\ call[s].pc = "write" /\ call'[s].pc = "finalize"
            /\ user.status = "active"
            => user.subject \in {None, s, user'.subject}]_teamVars
  BY <1>2, TeamInvariant, PTL DEF TeamSpec
<1> QED BY <1>3, <1>4 DEF NothingIsTakenOver, OwnStaysOwn, NoTakeover

-----------------------------------------------------------------------------
(* Store connections.  The inductive invariant: what is promised of a row   *)
(* is promised until it is overtaken, and again once it is authorized       *)
(* undisturbed.                                                             *)

Named == Working \cup {"again", "stateless"}

AttemptWorks ==
    [pc : Named \cup {"none", "over", "dead"}, row : Rows \cup {Vacant}]
      \cup [pc : {"new"}, row : Rows, org : Orgs, kind : Kinds]
CloserWorks ==
    [pc : {"none", "disconnect", "uninstall", "states", "revoke", "redact", "release", "done"},
     row : Rows \cup {Vacant}, shop : BOOLEAN]

WorkTyped == attempt \in [Attempts -> AttemptWorks] /\ closer \in [Closers -> CloserWorks]

\* What an attempt or a closer works on is a row of the store.
WorkKnown ==
    /\ \A a \in Attempts : attempt[a].pc \in Named =>
          attempt[a].row \in Rows /\ row[attempt[a].row].org # Vacant
    /\ \A d \in Closers :
          IF closer[d].pc \in {"none", "done"} THEN closer[d].row = Vacant
          ELSE closer[d].row \in Rows /\ row[closer[d].row].org # Vacant

RowsWhole ==
    \A r \in Rows :
       /\ row[r].org = Vacant => row[r] = Unused
       /\ row[r].status \in {"pending", "connected"} => row[r].domain /\ row[r].org # Vacant

\* A row to be created is one attempt's.
NewRows ==
    \A a \in Attempts : attempt[a].pc = "new" =>
        /\ row[attempt[a].row] = Unused
        /\ \A b \in Attempts \ {a} : attempt[b].row # attempt[a].row

\* One authorization, callback or state to call back, for each row.
OneAttempt ==
    \A a, b \in Attempts :
        /\ attempt[a].pc \in Working /\ attempt[b].pc \in Working
        /\ attempt[a].row = attempt[b].row /\ attempt[a].row \notin overtaken
        => a = b

\* A closer has deleted the row's secret and not yet revoked the row, or a callback
\* that could not record its success has.
Unkeyed(r) ==
    \E d \in Closers : closer[d].row = r /\ closer[d].pc \in {"states", "revoke", "redact"}
Cleared(r) == \E a \in Attempts : attempt[a].row = r /\ attempt[a].pc \in {"cleared", "dead"}

\* A callback works on a row that is not connected, unless by itself, has the store
\* while the row is pending, and the token unless a closer took it.
AttemptsStand ==
    \A a \in Attempts : attempt[a].row \notin overtaken =>
       LET r == attempt[a].row IN
       /\ attempt[a].pc \in Working =>
            /\ row[r].status = "connected" => attempt[a].pc \in {"connected", "failed", "cleared"}
            /\ row[r].status = "error" => attempt[a].pc = "marked"
       /\ attempt[a].pc \in {"cleared", "marked"} => r \notin secret
       /\ attempt[a].pc = "claimed" /\ row[r].status = "pending" => lock = row[r].org
       /\ attempt[a].pc \in {"identified", "claimed"} /\ row[r].status = "pending" =>
            r \in secret \/ Unkeyed(r)

RowsStand ==
    \A r \in Rows \ overtaken :
        /\ row[r].status = "error" => r \notin secret
        /\ row[r].status = "connected" =>
              lock = row[r].org /\ (r \in secret \/ Unkeyed(r) \/ Cleared(r))

StoreInv ==
    /\ StoreTypeOK /\ WorkTyped /\ WorkKnown /\ RowsWhole /\ NewRows /\ OneAttempt
    /\ AttemptsStand /\ RowsStand

-----------------------------------------------------------------------------
(* What a step does to one attempt, one row, one closer.                    *)

AttemptBecomes(a, w) == attempt'[a] = w /\ \A b \in Attempts \ {a} : attempt'[b] = attempt[b]

CloserBecomes(d, w) == closer'[d] = w /\ \A e \in Closers \ {d} : closer'[e] = closer[e]

RowBecomes(r, status, domain) ==
    /\ row'[r].org = row[r].org /\ row'[r].kind = row[r].kind
    /\ row'[r].status = status /\ row'[r].domain = domain
    /\ \A q \in Rows \ {r} : row'[q] = row[q]

LockReleased(o) ==
    \/ lock' = lock
    \/ lock = o /\ ~ \E r \in Linked : row[r].org = o /\ row[r].status \in {"pending", "connected"}

LEMMA StoreNames ==
  ASSUME StoreTypeOK, WorkTyped
  PROVE  /\ Vacant \notin Orgs \cup Rows
         /\ Unused.org = Vacant /\ Unused.status = "none" /\ ~Unused.domain
         /\ \A a \in Attempts : attempt[a].row \in Rows \cup {Vacant}
         /\ \A d \in Closers : closer[d].row \in Rows \cup {Vacant}
         /\ \A a \in Attempts : attempt[a].pc = "open" =>
               attempt[a] = [pc |-> "open", row |-> attempt[a].row]
         /\ \A a \in Attempts : attempt[a].pc = "new" =>
               attempt[a].row \in Rows /\ attempt[a].org \in Orgs /\ attempt[a].kind \in Kinds
BY StoreAssumption DEF StoreTypeOK, WorkTyped, AttemptWorks, CloserWorks, Unused, Named, Working

\* A row of the workspace is found, to be authorized again.
LEMMA FindsRowStep ==
  ASSUME StoreInv, NEW a \in Attempts, NEW r \in Rows,
         row[r].org \in Orgs, attempt[a].pc = "none", Attempt(a, "again", r),
         UNCHANGED << row, secret, lock, closer, overtaken >>
  PROVE  StoreInv'
<1> USE StoreNames DEF StoreInv, AttemptBecomes, CloserBecomes, RowBecomes
<1>1. /\ AttemptBecomes(a, [pc |-> "again", row |-> r])
  BY DEF WorkKnown, WorkTyped, StoreTypeOK, Named, Working, Attempt
<1>2. UNCHANGED << row, secret, lock, closer, overtaken >>
  BY DEF Attempt
<1>3. StoreTypeOK'
  BY <1>2 DEF StoreTypeOK, WorkTyped, AttemptWorks, StoreRows, WorkKnown, Named, Working, Attempt
<1>4. WorkTyped'
  BY <1>2 DEF WorkTyped, StoreTypeOK, AttemptWorks, CloserWorks, WorkKnown, Named,
     Working, Attempt
<1>5. WorkKnown' BY <1>1, <1>2, <1>3, <1>4 DEF WorkKnown, Named, Working
<1>6. RowsWhole' BY <1>1, <1>2, <1>3, <1>4 DEF RowsWhole, WorkKnown, NewRows, Named,
         Working
<1>7. NewRows' BY <1>1, <1>2, <1>3, <1>4 DEF NewRows, WorkKnown, Named, RowsWhole
<1>8. OneAttempt' BY <1>1, <1>2, <1>3, <1>4 DEF OneAttempt, WorkKnown, Working, Named,
         NewRows
<1>9. AttemptsStand' BY <1>1, <1>2, <1>3, <1>4 DEF AttemptsStand, WorkKnown, RowsWhole,
         OneAttempt, NewRows, Unkeyed, Working, Named
<1>10. RowsStand' BY <1>1, <1>2, <1>3, <1>4 DEF RowsStand, WorkKnown, RowsWhole, Cleared,
         AttemptsStand, OneAttempt, Unkeyed, Working, Named, NewRows
<1> QED BY <1>3, <1>4, <1>5, <1>6, <1>7, <1>8, <1>9, <1>10

\* No row is found: one is to be created.
LEMMA FindsNoneStep ==
  ASSUME StoreInv, NEW a \in Attempts, NEW r \in Rows, NEW o \in Orgs, NEW k \in Kinds,
         row[r] = Unused, \A b \in Attempts : attempt[b].row # r, attempt[a].pc = "none",
         attempt' = [attempt EXCEPT ![a] = [pc |-> "new", row |-> r, org |-> o, kind |-> k]],
         UNCHANGED << row, secret, lock, closer, overtaken >>
  PROVE  StoreInv'
<1> USE StoreNames DEF StoreInv, AttemptBecomes, CloserBecomes, RowBecomes
<1>1. /\ AttemptBecomes(a, [pc |-> "new", row |-> r, org |-> o, kind |-> k])
  BY DEF WorkKnown, WorkTyped, StoreTypeOK, Named, Working
<1>2. UNCHANGED << row, secret, lock, closer, overtaken >>
  OBVIOUS
<1>3. StoreTypeOK'
  BY <1>2 DEF StoreTypeOK, WorkTyped, AttemptWorks, StoreRows, WorkKnown, Named, Working
<1>4. WorkTyped'
  BY <1>2 DEF WorkTyped, StoreTypeOK, AttemptWorks, CloserWorks, WorkKnown, Named, Working
<1>5. WorkKnown' BY <1>1, <1>2, <1>3, <1>4 DEF WorkKnown, Named, Working
<1>6. RowsWhole' BY <1>1, <1>2, <1>3, <1>4 DEF RowsWhole, WorkKnown, NewRows, Named,
         Working
<1>7. NewRows' BY <1>1, <1>2, <1>3, <1>4 DEF NewRows, WorkKnown, Named, RowsWhole
<1>8. OneAttempt' BY <1>1, <1>2, <1>3, <1>4 DEF OneAttempt, WorkKnown, Working, Named,
         NewRows
<1>9. AttemptsStand' BY <1>1, <1>2, <1>3, <1>4 DEF AttemptsStand, WorkKnown, RowsWhole,
         OneAttempt, NewRows, Unkeyed, Working, Named
<1>10. RowsStand' BY <1>1, <1>2, <1>3, <1>4 DEF RowsStand, WorkKnown, RowsWhole, Cleared,
         AttemptsStand, OneAttempt, Unkeyed, Working, Named, NewRows
<1> QED BY <1>3, <1>4, <1>5, <1>6, <1>7, <1>8, <1>9, <1>10

\* The other states of a row are deleted.
LEMMA ForgetsStep ==
  ASSUME StoreInv, NEW a \in Attempts, ForgetStates(a)
  PROVE  StoreInv'
<1> USE StoreNames DEF StoreInv, AttemptBecomes, CloserBecomes, RowBecomes
<1>1. /\ attempt[a].pc = "again" /\ attempt[a].row \in Rows
      /\ attempt'[a] = [pc |-> "stateless", row |-> attempt[a].row]
      /\ \A b \in Attempts \ {a} : IF attempt[b] = [pc |-> "open", row |-> attempt[a].row]
            THEN attempt'[b] = [pc |-> "over", row |-> attempt[a].row] ELSE attempt'[b] = attempt[b]
  BY DEF WorkKnown, WorkTyped, StoreTypeOK, Named, Working, ForgetStates
<1>2. UNCHANGED << row, secret, lock, closer, overtaken >>
  BY DEF ForgetStates
<1>3. StoreTypeOK'
  BY <1>1, <1>2 DEF StoreTypeOK, WorkTyped, AttemptWorks, WorkKnown, Named, Working, ForgetStates
<1>4. WorkTyped'
  BY <1>2 DEF WorkTyped, StoreTypeOK, AttemptWorks, CloserWorks, WorkKnown, Named,
     Working, ForgetStates
<1>5. WorkKnown' BY <1>1, <1>2, <1>3, <1>4 DEF WorkKnown, Named, Working
<1>6. RowsWhole' BY <1>1, <1>2, <1>3, <1>4 DEF RowsWhole, WorkKnown, NewRows, Named,
         Working
<1>7. NewRows' BY <1>1, <1>2, <1>3, <1>4 DEF NewRows, WorkKnown, Named, RowsWhole
<1>8. OneAttempt' BY <1>1, <1>2, <1>3, <1>4, SMTT(60) DEF OneAttempt, WorkKnown, Working, Named,
         NewRows
<1>9. AttemptsStand' BY <1>1, <1>2, <1>3, <1>4 DEF AttemptsStand, WorkKnown, RowsWhole,
         OneAttempt, NewRows, Unkeyed, Working, Named
<1>10. RowsStand' BY <1>1, <1>2, <1>3, <1>4 DEF RowsStand, WorkKnown, RowsWhole, Cleared,
         AttemptsStand, OneAttempt, Unkeyed, Working, Named, NewRows
<1> QED BY <1>3, <1>4, <1>5, <1>6, <1>7, <1>8, <1>9, <1>10

\* A row is pending again.
LEMMA AgainStep ==
  ASSUME StoreInv, NEW a \in Attempts, AuthorizeAgain(a), attempt'[a].pc = "reopened"
  PROVE  StoreInv'
<1> USE StoreNames DEF StoreInv, AttemptBecomes, CloserBecomes, RowBecomes
<1>1. /\ attempt[a].pc = "stateless" /\ attempt[a].row \in Rows
      /\ AttemptBecomes(a, [pc |-> "reopened", row |-> attempt[a].row])
      /\ RowBecomes(attempt[a].row, "pending", TRUE)
      /\ \A q \in Rows \ {attempt[a].row} : q \in overtaken' <=> q \in overtaken
      /\ attempt[a].row \notin overtaken' =>
            /\ \A d \in Closers : closer[d].row # attempt[a].row
            /\ \A b \in Attempts \ {a} :
                  attempt[b].row = attempt[a].row => attempt[b].pc \notin Working
  <2>1. attempt[a].pc = "stateless" /\ attempt[a].row \in Rows
    BY DEF AuthorizeAgain, WorkKnown, Named
  <2>2. attempt' = [attempt EXCEPT ![a] = [pc |-> attempt'[a].pc, row |-> attempt[a].row]]
    BY DEF AuthorizeAgain, Attempt, WorkTyped
  <2>3. AttemptBecomes(a, [pc |-> "reopened", row |-> attempt[a].row])
    BY <2>2 DEF WorkTyped
  <2>4. ~(~row[attempt[a].row].domain /\ Refused(attempt[a].row, row[attempt[a].row].kind))
    BY <2>3 DEF AuthorizeAgain, Attempt, WorkTyped
  <2>5. RowBecomes(attempt[a].row, "pending", TRUE)
    BY <2>1, <2>4 DEF AuthorizeAgain, StoreTypeOK, StoreRows
  <2>6. overtaken' = IF Overtakes(a, attempt[a].row) THEN overtaken \cup {attempt[a].row}
                                                   ELSE overtaken \ {attempt[a].row}
    BY <2>4 DEF AuthorizeAgain
  <2>7. Overtakes(a, attempt[a].row) \/
            /\ \A d \in Closers : closer[d].row # attempt[a].row
            /\ \A b \in Attempts \ {a} :
                  attempt[b].row = attempt[a].row => attempt[b].pc \notin Working
    BY DEF Overtakes, Closing
  <2> QED BY <2>1, <2>3, <2>5, <2>6, <2>7
<1>2. UNCHANGED << secret, lock, closer >> /\ overtaken' \subseteq Rows
  BY DEF AuthorizeAgain, WorkKnown, StoreTypeOK, Named
<1>3. StoreTypeOK'
  <2> DEFINE r == attempt[a].row
             k == IF row[r].known = "audited" THEN row[r].known ELSE "no"
             v == [row[r] EXCEPT !.status = "pending", !.domain = TRUE, !.known = k]
  <2>1. r \in Rows /\ row[r] \in StoreRows /\ k \in {"audited", "no"}
    BY <1>1 DEF StoreTypeOK
  <2>2. row' = [row EXCEPT ![r] = v]
    <3>1. ~(~row[r].domain /\ Refused(r, row[r].kind))
      BY <1>1 DEF AuthorizeAgain, Attempt, WorkTyped, AttemptBecomes
    <3> QED BY <2>1, <3>1 DEF AuthorizeAgain, StoreTypeOK, StoreRows
  <2> HIDE DEF k
  <2>3. v \in StoreRows
    BY <2>1 DEF StoreRows
  <2> HIDE DEF v
  <2>4. row' \in [Rows -> StoreRows]
    BY <2>1, <2>2, <2>3 DEF StoreTypeOK
  <2> QED BY <1>1, <1>2, <2>4 DEF StoreTypeOK, AuthorizeAgain, WorkTyped, Attempt
<1>4. WorkTyped'
  BY <1>2 DEF WorkTyped, StoreTypeOK, AttemptWorks, CloserWorks, WorkKnown, Named,
     Working, AuthorizeAgain, Attempt
<1>5. WorkKnown' BY <1>1, <1>2, <1>3, <1>4 DEF WorkKnown, Named, Working
<1>6. RowsWhole' BY <1>1, <1>2, <1>3, <1>4 DEF RowsWhole, WorkKnown, NewRows, Named,
         Working
<1>7. NewRows' BY <1>1, <1>2, <1>3, <1>4 DEF NewRows, WorkKnown, Named, RowsWhole
<1>8. OneAttempt' BY <1>1, <1>2, <1>3, <1>4, SMTT(60) DEF OneAttempt, WorkKnown, Working, Named,
         NewRows
<1>9. AttemptsStand' BY <1>1, <1>2, <1>3, <1>4 DEF AttemptsStand, WorkKnown, RowsWhole,
         OneAttempt, NewRows, Unkeyed, Working, Named
<1>10. RowsStand' BY <1>1, <1>2, <1>3, <1>4 DEF RowsStand, WorkKnown, RowsWhole, Cleared,
         AttemptsStand, OneAttempt, Unkeyed, Working, Named, NewRows
<1> QED BY <1>3, <1>4, <1>5, <1>6, <1>7, <1>8, <1>9, <1>10

\* A row is created.
LEMMA NewStep ==
  ASSUME StoreInv, NEW a \in Attempts, AuthorizeNew(a), attempt'[a].pc = "reopened"
  PROVE  StoreInv'
<1> USE StoreNames DEF StoreInv, AttemptBecomes, CloserBecomes, RowBecomes
<1>1. /\ attempt[a].pc = "new" /\ attempt[a].row \in Rows /\ attempt[a].org \in Orgs /\ attempt[a].kind \in Kinds
      /\ AttemptBecomes(a, [pc |-> "reopened", row |-> attempt[a].row])
      /\ row'[attempt[a].row] = [org |-> attempt[a].org, kind |-> attempt[a].kind,
            status |-> "pending", domain |-> TRUE, known |-> "no"]
      /\ \A q \in Rows \ {attempt[a].row} : row'[q] = row[q]
  BY DEF WorkKnown, WorkTyped, StoreTypeOK, Named, Working, AuthorizeNew, Attempt
<1>2. UNCHANGED << secret, lock, closer, overtaken >>
  BY DEF AuthorizeNew, Attempt
<1>3. StoreTypeOK'
  <2> DEFINE r == attempt[a].row
             v == [org |-> attempt[a].org, kind |-> attempt[a].kind, status |-> "pending",
                   domain |-> TRUE, known |-> "no"]
  <2>1. r \in Rows /\ v \in StoreRows
    BY <1>1 DEF StoreRows
  <2>2. row' = [row EXCEPT ![r] = v] \/ row' = row
    BY DEF AuthorizeNew
  <2> HIDE DEF v
  <2>4. row' \in [Rows -> StoreRows]
    BY <2>1, <2>2 DEF StoreTypeOK
  <2> QED BY <1>1, <1>2, <2>4 DEF StoreTypeOK, AuthorizeNew, WorkTyped, Attempt
<1>4. WorkTyped'
  BY <1>2 DEF WorkTyped, StoreTypeOK, AttemptWorks, CloserWorks, WorkKnown, Named,
     Working, AuthorizeNew, Attempt
<1>5. WorkKnown' BY <1>1, <1>2, <1>3, <1>4 DEF WorkKnown, Named, Working
<1>6. RowsWhole' BY <1>1, <1>2, <1>3, <1>4 DEF RowsWhole, WorkKnown, NewRows, Named,
         Working
<1>7. NewRows' BY <1>1, <1>2, <1>3, <1>4 DEF NewRows, WorkKnown, Named, RowsWhole
<1>8. OneAttempt' BY <1>1, <1>2, <1>3, <1>4 DEF OneAttempt, WorkKnown, Working, Named,
         NewRows
<1>9. AttemptsStand' BY <1>1, <1>2, <1>3, <1>4 DEF AttemptsStand, WorkKnown, RowsWhole,
         OneAttempt, NewRows, Unkeyed, Working, Named
<1>10. RowsStand' BY <1>1, <1>2, <1>3, <1>4 DEF RowsStand, WorkKnown, RowsWhole, Cleared,
         AttemptsStand, OneAttempt, Unkeyed, Working, Named, NewRows
<1> QED BY <1>3, <1>4, <1>5, <1>6, <1>7, <1>8, <1>9, <1>10

\* The unique index refuses the row.
LEMMA RefusedStep ==
  ASSUME StoreInv, NEW a \in Attempts, NEW v \in {attempt[a].row, Vacant},
         attempt[a].pc \in {"new", "stateless"}, Attempt(a, "over", v),
         UNCHANGED << row, secret, lock, closer, overtaken >>
  PROVE  StoreInv'
<1> USE StoreNames DEF StoreInv, AttemptBecomes, CloserBecomes, RowBecomes
<1>1. /\ AttemptBecomes(a, [pc |-> "over", row |-> v])
  BY DEF WorkKnown, WorkTyped, StoreTypeOK, Named, Working, Attempt
<1>2. UNCHANGED << row, secret, lock, closer, overtaken >>
  BY DEF Attempt
<1>3. StoreTypeOK'
  BY <1>2 DEF StoreTypeOK, WorkTyped, AttemptWorks, StoreRows, WorkKnown, Named, Working, Attempt
<1>4. WorkTyped'
  BY <1>2 DEF WorkTyped, StoreTypeOK, AttemptWorks, CloserWorks, WorkKnown, Named,
     Working, Attempt
<1>5. WorkKnown' BY <1>1, <1>2, <1>3, <1>4 DEF WorkKnown, Named, Working
<1>6. RowsWhole' BY <1>1, <1>2, <1>3, <1>4 DEF RowsWhole, WorkKnown, NewRows, Named,
         Working
<1>7. NewRows' BY <1>1, <1>2, <1>3, <1>4 DEF NewRows, WorkKnown, Named, RowsWhole
<1>8. OneAttempt' BY <1>1, <1>2, <1>3, <1>4 DEF OneAttempt, WorkKnown, Working, Named,
         NewRows
<1>9. AttemptsStand' BY <1>1, <1>2, <1>3, <1>4 DEF AttemptsStand, WorkKnown, RowsWhole,
         OneAttempt, NewRows, Unkeyed, Working, Named
<1>10. RowsStand' BY <1>1, <1>2, <1>3, <1>4 DEF RowsStand, WorkKnown, RowsWhole, Cleared,
         AttemptsStand, OneAttempt, Unkeyed, Working, Named, NewRows
<1> QED BY <1>3, <1>4, <1>5, <1>6, <1>7, <1>8, <1>9, <1>10

\* A callback that goes on, fails, ends or dies, and changes nothing else.
LEMMA AttemptGoesStep ==
  ASSUME StoreInv, NEW a \in Attempts, NEW pc,
         attempt[a].pc \in Working, Attempt(a, pc, attempt[a].row),
         UNCHANGED << row, secret, lock, closer, overtaken >>,
         \/ pc = "open" /\ attempt[a].pc = "reopened"
         \/ pc = "checked" /\ attempt[a].pc = "open"
         \/ pc = "exchanged" /\ attempt[a].pc = "checked"
         \/ pc = "identified" /\ attempt[a].pc = "saved" /\ attempt[a].row \in secret
         \/ pc = "failed" /\ attempt[a].pc \notin {"reopened", "open", "failed", "cleared", "marked"}
         \/ pc = "over" /\ attempt[a].pc = "open"
         \/ pc = "dead"
  PROVE  StoreInv'
<1> USE StoreNames DEF StoreInv, AttemptBecomes, CloserBecomes, RowBecomes
<1>1. /\ AttemptBecomes(a, [pc |-> pc, row |-> attempt[a].row])
  BY DEF WorkKnown, WorkTyped, StoreTypeOK, Named, Working, Attempt
<1>2. UNCHANGED << row, secret, lock, closer, overtaken >>
  BY DEF Attempt
<1>3. StoreTypeOK'
  BY <1>2 DEF StoreTypeOK, WorkTyped, AttemptWorks, StoreRows, WorkKnown, Named, Working, Attempt
<1>4. WorkTyped'
  BY <1>2 DEF WorkTyped, StoreTypeOK, AttemptWorks, CloserWorks, WorkKnown, Named,
     Working, Attempt
<1>5. WorkKnown' BY <1>1, <1>2, <1>3, <1>4 DEF WorkKnown, Named, Working
<1>6. RowsWhole' BY <1>1, <1>2, <1>3, <1>4 DEF RowsWhole, WorkKnown, NewRows, Named,
         Working
<1>7. NewRows' BY <1>1, <1>2, <1>3, <1>4 DEF NewRows, WorkKnown, Named, RowsWhole
<1>8. OneAttempt' BY <1>1, <1>2, <1>3, <1>4 DEF OneAttempt, WorkKnown, Working, Named,
         NewRows
<1>9. AttemptsStand' BY <1>1, <1>2, <1>3, <1>4 DEF AttemptsStand, WorkKnown, RowsWhole,
         OneAttempt, NewRows, Unkeyed, Working, Named
<1>10. RowsStand' BY <1>1, <1>2, <1>3, <1>4 DEF RowsStand, WorkKnown, RowsWhole, Cleared,
         AttemptsStand, OneAttempt, Unkeyed, Working, Named, NewRows
<1> QED BY <1>3, <1>4, <1>5, <1>6, <1>7, <1>8, <1>9, <1>10

\* The token is saved.
LEMMA SavesTokenStep ==
  ASSUME StoreInv, NEW a \in Attempts, SaveToken(a)
  PROVE  StoreInv'
<1> USE StoreNames DEF StoreInv, AttemptBecomes, CloserBecomes, RowBecomes
<1>1. /\ attempt[a].pc = "exchanged"
      /\ AttemptBecomes(a, [pc |-> "saved", row |-> attempt[a].row])
      /\ secret' = secret \cup {attempt[a].row}
  BY DEF WorkKnown, WorkTyped, StoreTypeOK, Named, Working, SaveToken, CallbackStep,
     Attempt
<1>2. UNCHANGED << row, lock, closer, overtaken >>
  BY DEF SaveToken, CallbackStep, Attempt
<1>3. StoreTypeOK'
  BY <1>2 DEF StoreTypeOK, WorkTyped, AttemptWorks, StoreRows, WorkKnown, Named, Working,
     SaveToken, CallbackStep, Attempt
<1>4. WorkTyped'
  BY <1>2 DEF WorkTyped, StoreTypeOK, AttemptWorks, CloserWorks, WorkKnown, Named,
     Working, SaveToken, CallbackStep, Attempt
<1>5. WorkKnown' BY <1>1, <1>2, <1>3, <1>4 DEF WorkKnown, Named, Working
<1>6. RowsWhole' BY <1>1, <1>2, <1>3, <1>4 DEF RowsWhole, WorkKnown, NewRows, Named,
         Working
<1>7. NewRows' BY <1>1, <1>2, <1>3, <1>4 DEF NewRows, WorkKnown, Named, RowsWhole
<1>8. OneAttempt' BY <1>1, <1>2, <1>3, <1>4 DEF OneAttempt, WorkKnown, Working, Named,
         NewRows
<1>9. AttemptsStand' BY <1>1, <1>2, <1>3, <1>4 DEF AttemptsStand, WorkKnown, RowsWhole,
         OneAttempt, NewRows, Unkeyed, Working, Named
<1>10. RowsStand' BY <1>1, <1>2, <1>3, <1>4 DEF RowsStand, WorkKnown, RowsWhole, Cleared,
         AttemptsStand, OneAttempt, Unkeyed, Working, Named, NewRows
<1> QED BY <1>3, <1>4, <1>5, <1>6, <1>7, <1>8, <1>9, <1>10

\* The store is claimed.
LEMMA ClaimsStep ==
  ASSUME StoreInv, NEW a \in Attempts, Claim(a), Claimable(row[attempt[a].row].org)
  PROVE  StoreInv'
<1> USE StoreNames DEF StoreInv, AttemptBecomes, CloserBecomes, RowBecomes
<1>1. /\ attempt[a].pc = "identified" /\ lock \in {Vacant, row[attempt[a].row].org}
      /\ AttemptBecomes(a, [pc |-> "claimed", row |-> attempt[a].row])
      /\ lock' = row[attempt[a].row].org
  BY DEF WorkKnown, WorkTyped, StoreTypeOK, Named, Working, Claim, Claimable,
     CallbackStep, Attempt
<1>2. UNCHANGED << row, secret, closer, overtaken >>
  BY DEF Claim, Claimable, CallbackStep, Attempt
<1>3. StoreTypeOK'
  BY <1>2 DEF StoreTypeOK, WorkTyped, AttemptWorks, StoreRows, WorkKnown, Named, Working, Claim,
     Claimable, CallbackStep, Attempt
<1>4. WorkTyped'
  BY <1>2 DEF WorkTyped, StoreTypeOK, AttemptWorks, CloserWorks, WorkKnown, Named,
     Working, Claim, Claimable, CallbackStep, Attempt
<1>5. WorkKnown' BY <1>1, <1>2, <1>3, <1>4 DEF WorkKnown, Named, Working
<1>6. RowsWhole' BY <1>1, <1>2, <1>3, <1>4 DEF RowsWhole, WorkKnown, NewRows, Named,
         Working
<1>7. NewRows' BY <1>1, <1>2, <1>3, <1>4 DEF NewRows, WorkKnown, Named, RowsWhole
<1>8. OneAttempt' BY <1>1, <1>2, <1>3, <1>4 DEF OneAttempt, WorkKnown, Working, Named,
         NewRows
<1>9. AttemptsStand' BY <1>1, <1>2, <1>3, <1>4 DEF AttemptsStand, WorkKnown, RowsWhole,
         OneAttempt, NewRows, Unkeyed, Working, Named
<1>10. RowsStand' BY <1>1, <1>2, <1>3, <1>4 DEF RowsStand, WorkKnown, RowsWhole, Cleared,
         AttemptsStand, OneAttempt, Unkeyed, Working, Named, NewRows
<1> QED BY <1>3, <1>4, <1>5, <1>6, <1>7, <1>8, <1>9, <1>10

\* The row is connected.
LEMMA ConnectsStep ==
  ASSUME StoreInv, NEW a \in Attempts, Connect(a), StillPending(attempt[a].row)
  PROVE  StoreInv'
<1> USE StoreNames DEF StoreInv, AttemptBecomes, CloserBecomes, RowBecomes
<1>1. /\ attempt[a].pc = "claimed" /\ attempt[a].row \in Rows /\ row[attempt[a].row].status = "pending"
      /\ AttemptBecomes(a, [pc |-> "connected", row |-> attempt[a].row])
      /\ RowBecomes(attempt[a].row, "connected", row[attempt[a].row].domain)
  BY DEF WorkKnown, WorkTyped, StoreTypeOK, Named, Working, Connect, StillPending,
     CallbackStep, Attempt
<1>2. UNCHANGED << secret, lock, closer, overtaken >>
  BY DEF Connect, StillPending, CallbackStep, Attempt
<1>3. StoreTypeOK'
  <2> DEFINE r == attempt[a].row
             k == IF row[r].known = "audited" THEN "audited" ELSE "dated"
             v == [row[r] EXCEPT !.status = "connected", !.known = k]
  <2>1. r \in Rows /\ row[r] \in StoreRows /\ k \in {"audited", "dated"}
    BY <1>1 DEF StoreTypeOK
  <2>2. row' = [row EXCEPT ![r] = v]
    BY <1>1, <2>1 DEF Connect, StillPending, StoreTypeOK, StoreRows
  <2> HIDE DEF k
  <2>3. v \in StoreRows
    BY <2>1 DEF StoreRows
  <2> HIDE DEF v
  <2>4. row' \in [Rows -> StoreRows]
    BY <2>1, <2>2, <2>3 DEF StoreTypeOK
  <2> QED BY <1>1, <1>2, <2>4 DEF StoreTypeOK, Connect, CallbackStep, Attempt, WorkTyped, AttemptBecomes
<1>4. WorkTyped'
  BY <1>2 DEF WorkTyped, StoreTypeOK, AttemptWorks, CloserWorks, WorkKnown, Named,
     Working, Connect, StillPending, CallbackStep, Attempt
<1>5. WorkKnown' BY <1>1, <1>2, <1>3, <1>4 DEF WorkKnown, Named, Working
<1>6. RowsWhole' BY <1>1, <1>2, <1>3, <1>4 DEF RowsWhole, WorkKnown, NewRows, Named,
         Working
<1>7. NewRows' BY <1>1, <1>2, <1>3, <1>4 DEF NewRows, WorkKnown, Named, RowsWhole
<1>8. OneAttempt' BY <1>1, <1>2, <1>3, <1>4 DEF OneAttempt, WorkKnown, Working, Named,
         NewRows
<1>9. AttemptsStand' BY <1>1, <1>2, <1>3, <1>4 DEF AttemptsStand, WorkKnown, RowsWhole,
         OneAttempt, NewRows, Unkeyed, Working, Named
<1>10. RowsStand' BY <1>1, <1>2, <1>3, <1>4 DEF RowsStand, WorkKnown, RowsWhole, Cleared,
         AttemptsStand, OneAttempt, Unkeyed, Working, Named, NewRows
<1> QED BY <1>3, <1>4, <1>5, <1>6, <1>7, <1>8, <1>9, <1>10

\* The connection is recorded.
LEMMA RecordsStep ==
  ASSUME StoreInv, NEW a \in Attempts, RecordConnected(a)
  PROVE  StoreInv'
<1> USE StoreNames DEF StoreInv, AttemptBecomes, CloserBecomes, RowBecomes
<1>1. /\ attempt[a].pc = "connected" /\ attempt[a].row \in Rows
      /\ AttemptBecomes(a, [pc |-> "over", row |-> attempt[a].row])
      /\ RowBecomes(attempt[a].row, row[attempt[a].row].status, row[attempt[a].row].domain)
  BY DEF WorkKnown, WorkTyped, StoreTypeOK, Named, Working, RecordConnected, CallbackStep,
     Attempt
<1>2. UNCHANGED << secret, lock, closer, overtaken >>
  BY DEF RecordConnected, CallbackStep, Attempt
<1>3. StoreTypeOK'
  BY <1>2 DEF StoreTypeOK, WorkTyped, AttemptWorks, StoreRows, WorkKnown, Named, Working,
     RecordConnected, CallbackStep, Attempt
<1>4. WorkTyped'
  BY <1>2 DEF WorkTyped, StoreTypeOK, AttemptWorks, CloserWorks, WorkKnown, Named,
     Working, RecordConnected, CallbackStep, Attempt
<1>5. WorkKnown' BY <1>1, <1>2, <1>3, <1>4 DEF WorkKnown, Named, Working
<1>6. RowsWhole' BY <1>1, <1>2, <1>3, <1>4 DEF RowsWhole, WorkKnown, NewRows, Named,
         Working
<1>7. NewRows' BY <1>1, <1>2, <1>3, <1>4 DEF NewRows, WorkKnown, Named, RowsWhole
<1>8. OneAttempt' BY <1>1, <1>2, <1>3, <1>4, SMTT(60) DEF OneAttempt, WorkKnown, Working, Named,
         NewRows
<1>9. AttemptsStand' BY <1>1, <1>2, <1>3, <1>4 DEF AttemptsStand, WorkKnown, RowsWhole,
         OneAttempt, NewRows, Unkeyed, Working, Named
<1>10. RowsStand' BY <1>1, <1>2, <1>3, <1>4 DEF RowsStand, WorkKnown, RowsWhole, Cleared,
         AttemptsStand, OneAttempt, Unkeyed, Working, Named, NewRows
<1> QED BY <1>3, <1>4, <1>5, <1>6, <1>7, <1>8, <1>9, <1>10

\* A failed callback clears the token,
LEMMA ClearsStep ==
  ASSUME StoreInv, NEW a \in Attempts, ClearSecret(a)
  PROVE  StoreInv'
<1> USE StoreNames DEF StoreInv, AttemptBecomes, CloserBecomes, RowBecomes
<1>1. /\ attempt[a].pc = "failed"
      /\ AttemptBecomes(a, [pc |-> "cleared", row |-> attempt[a].row])
      /\ secret' = secret \ {attempt[a].row}
  BY DEF WorkKnown, WorkTyped, StoreTypeOK, Named, Working, ClearSecret, CallbackStep,
     Attempt
<1>2. UNCHANGED << row, lock, closer, overtaken >>
  BY DEF ClearSecret, CallbackStep, Attempt
<1>3. StoreTypeOK'
  BY <1>2 DEF StoreTypeOK, WorkTyped, AttemptWorks, StoreRows, WorkKnown, Named, Working,
     ClearSecret, CallbackStep, Attempt
<1>4. WorkTyped'
  BY <1>2 DEF WorkTyped, StoreTypeOK, AttemptWorks, CloserWorks, WorkKnown, Named,
     Working, ClearSecret, CallbackStep, Attempt
<1>5. WorkKnown' BY <1>1, <1>2, <1>3, <1>4 DEF WorkKnown, Named, Working
<1>6. RowsWhole' BY <1>1, <1>2, <1>3, <1>4 DEF RowsWhole, WorkKnown, NewRows, Named,
         Working
<1>7. NewRows' BY <1>1, <1>2, <1>3, <1>4 DEF NewRows, WorkKnown, Named, RowsWhole
<1>8. OneAttempt' BY <1>1, <1>2, <1>3, <1>4 DEF OneAttempt, WorkKnown, Working, Named,
         NewRows
<1>9. AttemptsStand' BY <1>1, <1>2, <1>3, <1>4 DEF AttemptsStand, WorkKnown, RowsWhole,
         OneAttempt, NewRows, Unkeyed, Working, Named
<1>10. RowsStand' BY <1>1, <1>2, <1>3, <1>4 DEF RowsStand, WorkKnown, RowsWhole, Cleared,
         AttemptsStand, OneAttempt, Unkeyed, Working, Named, NewRows
<1> QED BY <1>3, <1>4, <1>5, <1>6, <1>7, <1>8, <1>9, <1>10

\* marks the row,
LEMMA MarksStep ==
  ASSUME StoreInv, NEW a \in Attempts, MarkError(a)
  PROVE  StoreInv'
<1> USE StoreNames DEF StoreInv, AttemptBecomes, CloserBecomes, RowBecomes
<1>1. /\ attempt[a].pc = "cleared" /\ attempt[a].row \in Rows
      /\ AttemptBecomes(a, [pc |-> "marked", row |-> attempt[a].row])
      /\ RowBecomes(attempt[a].row, "error", row[attempt[a].row].domain)
  BY DEF WorkKnown, WorkTyped, StoreTypeOK, Named, Working, MarkError, CallbackStep,
     Attempt
<1>2. UNCHANGED << secret, lock, closer, overtaken >>
  BY DEF MarkError, CallbackStep, Attempt
<1>3. StoreTypeOK'
  BY <1>2 DEF StoreTypeOK, WorkTyped, AttemptWorks, StoreRows, WorkKnown, Named, Working,
     MarkError, CallbackStep, Attempt
<1>4. WorkTyped'
  BY <1>2 DEF WorkTyped, StoreTypeOK, AttemptWorks, CloserWorks, WorkKnown, Named,
     Working, MarkError, CallbackStep, Attempt
<1>5. WorkKnown' BY <1>1, <1>2, <1>3, <1>4 DEF WorkKnown, Named, Working
<1>6. RowsWhole' BY <1>1, <1>2, <1>3, <1>4 DEF RowsWhole, WorkKnown, NewRows, Named,
         Working
<1>7. NewRows' BY <1>1, <1>2, <1>3, <1>4 DEF NewRows, WorkKnown, Named, RowsWhole
<1>8. OneAttempt' BY <1>1, <1>2, <1>3, <1>4 DEF OneAttempt, WorkKnown, Working, Named,
         NewRows
<1>9. AttemptsStand' BY <1>1, <1>2, <1>3, <1>4 DEF AttemptsStand, WorkKnown, RowsWhole,
         OneAttempt, NewRows, Unkeyed, Working, Named
<1>10. RowsStand' BY <1>1, <1>2, <1>3, <1>4 DEF RowsStand, WorkKnown, RowsWhole, Cleared,
         AttemptsStand, OneAttempt, Unkeyed, Working, Named, NewRows
<1> QED BY <1>3, <1>4, <1>5, <1>6, <1>7, <1>8, <1>9, <1>10

\* and gives up the store, unless another row of the workspace needs it.
LEMMA GivesUpStep ==
  ASSUME StoreInv, NEW a \in Attempts, GiveUpStore(a)
  PROVE  StoreInv'
<1> USE StoreNames DEF StoreInv, AttemptBecomes, CloserBecomes, RowBecomes
<1>1. /\ attempt[a].pc = "marked"
      /\ AttemptBecomes(a, [pc |-> "over", row |-> attempt[a].row])
      /\ LockReleased(row[attempt[a].row].org)
  BY DEF WorkKnown, WorkTyped, StoreTypeOK, Named, Working, GiveUpStore, CallbackStep,
     Attempt, LockReleased, Released
<1>2. UNCHANGED << row, secret, closer, overtaken >>
  BY DEF GiveUpStore, CallbackStep, Attempt, LockReleased, Released
<1>3. StoreTypeOK'
  BY <1>2 DEF StoreTypeOK, WorkTyped, AttemptWorks, StoreRows, WorkKnown, Named, Working,
     GiveUpStore, CallbackStep, Attempt, LockReleased, Released
<1>4. WorkTyped'
  BY <1>2 DEF WorkTyped, StoreTypeOK, AttemptWorks, CloserWorks, WorkKnown, Named,
     Working, GiveUpStore, CallbackStep, Attempt, LockReleased, Released
<1>5. WorkKnown' BY <1>1, <1>2, <1>3, <1>4 DEF WorkKnown, Named, Working
<1>6. RowsWhole' BY <1>1, <1>2, <1>3, <1>4 DEF RowsWhole, WorkKnown, NewRows, Named,
         Working
<1>7. NewRows' BY <1>1, <1>2, <1>3, <1>4 DEF NewRows, WorkKnown, Named, RowsWhole
<1>8. OneAttempt' BY <1>1, <1>2, <1>3, <1>4 DEF OneAttempt, WorkKnown, Working, Named,
         NewRows
<1>9. AttemptsStand' BY <1>1, <1>2, <1>3, <1>4 DEF AttemptsStand, WorkKnown, RowsWhole,
         OneAttempt, NewRows, Unkeyed, Working, Named, LockReleased, Linked
<1>10. RowsStand' BY <1>1, <1>2, <1>3, <1>4 DEF RowsStand, WorkKnown, RowsWhole, Cleared,
         AttemptsStand, OneAttempt, Unkeyed, Working, Named, NewRows, LockReleased, Linked
<1> QED BY <1>3, <1>4, <1>5, <1>6, <1>7, <1>8, <1>9, <1>10

\* A disconnect, or a webhook, begins.
LEMMA BeginsClosingStep ==
  ASSUME StoreInv, NEW d \in Closers, NEW r \in Rows, NEW pc \in {"disconnect", "uninstall"},
         closer[d].pc = "none", row[r].org # Vacant,
         NEW shop \in BOOLEAN, closer' = [closer EXCEPT ![d] = [pc |-> pc, row |-> r, shop |-> shop]],
         UNCHANGED << row, secret, lock, attempt, overtaken >>
  PROVE  StoreInv'
<1> USE StoreNames DEF StoreInv, AttemptBecomes, CloserBecomes, RowBecomes
<1>1. /\ CloserBecomes(d, [pc |-> pc, row |-> r, shop |-> shop])
  BY DEF WorkKnown, WorkTyped, StoreTypeOK, Named, Working
<1>2. UNCHANGED << row, secret, lock, attempt, overtaken >>
  OBVIOUS
<1>3. StoreTypeOK'
  BY <1>2 DEF StoreTypeOK, WorkTyped, AttemptWorks, StoreRows, WorkKnown, Named, Working
<1>4. WorkTyped'
  BY <1>2 DEF WorkTyped, StoreTypeOK, AttemptWorks, CloserWorks, WorkKnown, Named, Working
<1>5. WorkKnown' BY <1>1, <1>2, <1>3, <1>4 DEF WorkKnown, Named, Working
<1>6. RowsWhole' BY <1>1, <1>2, <1>3, <1>4 DEF RowsWhole, WorkKnown, NewRows, Named,
         Working
<1>7. NewRows' BY <1>1, <1>2, <1>3, <1>4 DEF NewRows, WorkKnown, Named, RowsWhole
<1>8. OneAttempt' BY <1>1, <1>2, <1>3, <1>4 DEF OneAttempt, WorkKnown, Working, Named,
         NewRows
<1>9. AttemptsStand' BY <1>1, <1>2, <1>3, <1>4 DEF AttemptsStand, WorkKnown, RowsWhole,
         OneAttempt, NewRows, Unkeyed, Working, Named
<1>10. RowsStand' BY <1>1, <1>2, <1>3, <1>4 DEF RowsStand, WorkKnown, RowsWhole, Cleared,
         AttemptsStand, OneAttempt, Unkeyed, Working, Named, NewRows
<1> QED BY <1>3, <1>4, <1>5, <1>6, <1>7, <1>8, <1>9, <1>10

\* It deletes the token.
LEMMA DeletesSecretStep ==
  ASSUME StoreInv, NEW d \in Closers, DeleteSecret(d)
  PROVE  StoreInv'
<1> USE StoreNames DEF StoreInv, AttemptBecomes, CloserBecomes, RowBecomes
<1>1. /\ closer[d].pc \in {"disconnect", "uninstall"}
      /\ \/ CloserBecomes(d, [pc |-> "states", row |-> closer[d].row, shop |-> closer[d].shop])
         \/ CloserBecomes(d, [pc |-> "redact", row |-> closer[d].row, shop |-> closer[d].shop])
      /\ secret' = secret \ {closer[d].row}
  BY DEF WorkKnown, WorkTyped, StoreTypeOK, Named, Working, DeleteSecret, Close,
     CloserWorks
<1>2. UNCHANGED << row, lock, attempt, overtaken >>
  BY DEF DeleteSecret, Close, CloserWorks
<1>3. StoreTypeOK'
  BY <1>2 DEF StoreTypeOK, WorkTyped, AttemptWorks, StoreRows, WorkKnown, Named, Working,
     DeleteSecret, Close, CloserWorks
<1>4. WorkTyped'
  BY <1>2 DEF WorkTyped, StoreTypeOK, AttemptWorks, CloserWorks, WorkKnown, Named,
     Working, DeleteSecret, Close, CloserWorks
<1>5. WorkKnown' BY <1>1, <1>2, <1>3, <1>4 DEF WorkKnown, Named, Working
<1>6. RowsWhole' BY <1>1, <1>2, <1>3, <1>4 DEF RowsWhole, WorkKnown, NewRows, Named,
         Working
<1>7. NewRows' BY <1>1, <1>2, <1>3, <1>4 DEF NewRows, WorkKnown, Named, RowsWhole
<1>8. OneAttempt' BY <1>1, <1>2, <1>3, <1>4 DEF OneAttempt, WorkKnown, Working, Named,
         NewRows
<1>9. AttemptsStand' BY <1>1, <1>2, <1>3, <1>4 DEF AttemptsStand, WorkKnown, RowsWhole,
         OneAttempt, NewRows, Unkeyed, Working, Named
<1>10. RowsStand' BY <1>1, <1>2, <1>3, <1>4 DEF RowsStand, WorkKnown, RowsWhole, Cleared,
         AttemptsStand, OneAttempt, Unkeyed, Working, Named, NewRows
<1> QED BY <1>3, <1>4, <1>5, <1>6, <1>7, <1>8, <1>9, <1>10

\* It deletes the open states.
LEMMA DeletesStatesStep ==
  ASSUME StoreInv, NEW d \in Closers, DeleteStates(d)
  PROVE  StoreInv'
<1> USE StoreNames DEF StoreInv, AttemptBecomes, CloserBecomes, RowBecomes
<1>1. /\ closer[d].pc = "states"
      /\ CloserBecomes(d, [pc |-> "revoke", row |-> closer[d].row, shop |-> closer[d].shop])
      /\ \A a \in Attempts : IF attempt[a] = [pc |-> "open", row |-> closer[d].row]
            THEN attempt'[a] = [pc |-> "over", row |-> closer[d].row] ELSE attempt'[a] = attempt[a]
  BY DEF WorkKnown, WorkTyped, StoreTypeOK, Named, Working, DeleteStates, Close,
     CloserWorks
<1>2. UNCHANGED << row, secret, lock, overtaken >>
  BY DEF DeleteStates, Close, CloserWorks
<1>3. StoreTypeOK'
  BY <1>2 DEF StoreTypeOK, WorkTyped, AttemptWorks, StoreRows, WorkKnown, Named, Working,
     DeleteStates, Close, CloserWorks
<1>4. WorkTyped'
  BY <1>2 DEF WorkTyped, StoreTypeOK, AttemptWorks, CloserWorks, WorkKnown, Named,
     Working, DeleteStates, Close, CloserWorks
<1>5. WorkKnown' BY <1>1, <1>2, <1>3, <1>4 DEF WorkKnown, Named, Working
<1>6. RowsWhole' BY <1>1, <1>2, <1>3, <1>4 DEF RowsWhole, WorkKnown, NewRows, Named,
         Working
<1>7. NewRows' BY <1>1, <1>2, <1>3, <1>4 DEF NewRows, WorkKnown, Named, RowsWhole
<1>8. OneAttempt' BY <1>1, <1>2, <1>3, <1>4 DEF OneAttempt, WorkKnown, Working, Named,
         NewRows
<1>9. AttemptsStand' BY <1>1, <1>2, <1>3, <1>4 DEF AttemptsStand, WorkKnown, RowsWhole,
         OneAttempt, NewRows, Unkeyed, Working, Named
<1>10. RowsStand' BY <1>1, <1>2, <1>3, <1>4 DEF RowsStand, WorkKnown, RowsWhole, Cleared,
         AttemptsStand, OneAttempt, Unkeyed, Working, Named, NewRows
<1> QED BY <1>3, <1>4, <1>5, <1>6, <1>7, <1>8, <1>9, <1>10

\* It revokes the row.
LEMMA RevokesStep ==
  ASSUME StoreInv, NEW d \in Closers, Revoke(d), closer'[d].pc = "release"
  PROVE  StoreInv'
<1> USE StoreNames DEF StoreInv, AttemptBecomes, CloserBecomes, RowBecomes
<1>1. /\ closer[d].pc \in {"revoke", "redact"} /\ closer[d].row \in Rows
      /\ CloserBecomes(d, [pc |-> "release", row |-> closer[d].row, shop |-> closer[d].shop])
      /\ RowBecomes(closer[d].row, "revoked", row'[closer[d].row].domain)
  <2>1. closer[d].pc \in {"revoke", "redact"} /\ closer[d].row \in Rows
    BY DEF Revoke, WorkKnown
  <2>2. ~(/\ closer[d].pc = "revoke" /\ closer[d].shop
          /\ ~row[closer[d].row].domain /\ Refused(closer[d].row, row[closer[d].row].kind))
    BY DEF Revoke, NoClosing, WorkTyped
  <2>3. CloserBecomes(d, [pc |-> "release", row |-> closer[d].row, shop |-> closer[d].shop])
    BY <2>2 DEF Revoke, Close, WorkTyped, CloserWorks
  <2>4. RowBecomes(closer[d].row, "revoked", row'[closer[d].row].domain)
    BY <2>1, <2>2 DEF Revoke, StoreTypeOK, StoreRows
  <2> QED BY <2>1, <2>3, <2>4
<1>2. UNCHANGED << secret, lock, attempt, overtaken >>
  BY DEF Revoke, Close, CloserWorks, NoClosing
<1>3. StoreTypeOK'
  <2> DEFINE r == closer[d].row
             x == closer[d].pc = "revoke" /\ closer[d].shop
  <2>1. r \in Rows /\ row[r] \in StoreRows /\ x \in BOOLEAN
    BY <1>1 DEF StoreTypeOK, WorkTyped, CloserWorks
  <2>2. row' = [row EXCEPT ![r] = [row[r] EXCEPT !.status = "revoked", !.domain = x]]
    <3>1. ~(x /\ ~row[r].domain /\ Refused(r, row[r].kind))
      BY <1>1 DEF Revoke, NoClosing, WorkTyped, CloserBecomes
    <3> QED BY <2>1, <3>1 DEF Revoke, StoreTypeOK, StoreRows
  <2> HIDE DEF x
  <2>3. [row[r] EXCEPT !.status = "revoked", !.domain = x] \in StoreRows
    BY <2>1 DEF StoreRows
  <2>4. row' \in [Rows -> StoreRows]
    BY <2>1, <2>2, <2>3 DEF StoreTypeOK
  <2> QED BY <1>1, <1>2, <2>4 DEF StoreTypeOK, Revoke, Close, WorkTyped
<1>4. WorkTyped'
  BY <1>2 DEF WorkTyped, StoreTypeOK, AttemptWorks, CloserWorks, WorkKnown, Named,
     Working, Revoke, Close, CloserWorks, NoClosing
<1>5. WorkKnown' BY <1>1, <1>2, <1>3, <1>4 DEF WorkKnown, Named, Working
<1>6. RowsWhole' BY <1>1, <1>2, <1>3, <1>4 DEF RowsWhole, WorkKnown, NewRows, Named,
         Working
<1>7. NewRows' BY <1>1, <1>2, <1>3, <1>4 DEF NewRows, WorkKnown, Named, RowsWhole
<1>8. OneAttempt' BY <1>1, <1>2, <1>3, <1>4 DEF OneAttempt, WorkKnown, Working, Named,
         NewRows
<1>9. AttemptsStand' BY <1>1, <1>2, <1>3, <1>4 DEF AttemptsStand, WorkKnown, RowsWhole,
         OneAttempt, NewRows, Unkeyed, Working, Named
<1>10. RowsStand' BY <1>1, <1>2, <1>3, <1>4 DEF RowsStand, WorkKnown, RowsWhole, Cleared,
         AttemptsStand, OneAttempt, Unkeyed, Working, Named, NewRows
<1> QED BY <1>3, <1>4, <1>5, <1>6, <1>7, <1>8, <1>9, <1>10

\* Or the index refuses it the domain, and it ends there.
LEMMA RevokeRefusedStep ==
  ASSUME StoreInv, NEW d \in Closers, closer[d].pc = "revoke",
         closer' = [closer EXCEPT ![d] = [NoClosing EXCEPT !.pc = "done"]],
         ~row[closer[d].row].domain,
         UNCHANGED << row, secret, lock, attempt, overtaken >>
  PROVE  StoreInv'
<1> USE StoreNames DEF StoreInv, AttemptBecomes, CloserBecomes, RowBecomes
<1>1. /\ CloserBecomes(d, [pc |-> "done", row |-> Vacant, shop |-> FALSE])
      /\ closer[d].row \in Rows
      /\ row[closer[d].row].status \notin {"pending", "connected"}
  BY DEF WorkKnown, WorkTyped, StoreTypeOK, Named, Working, NoClosing, RowsWhole
<1>2. UNCHANGED << row, secret, lock, attempt, overtaken >>
  OBVIOUS
<1>3. StoreTypeOK'
  BY <1>2 DEF StoreTypeOK, WorkTyped
<1>4. WorkTyped'
  BY <1>2 DEF WorkTyped, StoreTypeOK, AttemptWorks, CloserWorks, NoClosing
<1>5. WorkKnown' BY <1>1, <1>2, <1>3, <1>4 DEF WorkKnown, Named, Working
<1>6. RowsWhole' BY <1>1, <1>2, <1>3, <1>4 DEF RowsWhole, WorkKnown, NewRows, Named,
         Working
<1>7. NewRows' BY <1>1, <1>2, <1>3, <1>4 DEF NewRows, WorkKnown, Named, RowsWhole
<1>8. OneAttempt' BY <1>1, <1>2, <1>3, <1>4, SMTT(60) DEF OneAttempt, WorkKnown, Working, Named,
         NewRows
<1>9. AttemptsStand' BY <1>1, <1>2, <1>3, <1>4 DEF AttemptsStand, WorkKnown, RowsWhole,
         OneAttempt, NewRows, Unkeyed, Working, Named
<1>10. RowsStand' BY <1>1, <1>2, <1>3, <1>4 DEF RowsStand, WorkKnown, RowsWhole, Cleared,
         AttemptsStand, OneAttempt, Unkeyed, Working, Named, NewRows
<1> QED BY <1>3, <1>4, <1>5, <1>6, <1>7, <1>8, <1>9, <1>10

\* It gives up the store.
LEMMA ReleasesStoreStep ==
  ASSUME StoreInv, NEW d \in Closers, ReleaseStore(d)
  PROVE  StoreInv'
<1> USE StoreNames DEF StoreInv, AttemptBecomes, CloserBecomes, RowBecomes
<1>1. /\ closer[d].pc = "release"
      /\ CloserBecomes(d, [pc |-> "done", row |-> Vacant, shop |-> FALSE])
      /\ LockReleased(row[closer[d].row].org)
  BY DEF WorkKnown, WorkTyped, StoreTypeOK, Named, Working, ReleaseStore, LockReleased,
     Released, NoClosing
<1>2. UNCHANGED << row, secret, attempt, overtaken >>
  BY DEF ReleaseStore, LockReleased, Released, NoClosing
<1>3. StoreTypeOK'
  BY <1>2 DEF StoreTypeOK, WorkTyped, AttemptWorks, StoreRows, WorkKnown, Named, Working,
     ReleaseStore, LockReleased, Released, NoClosing
<1>4. WorkTyped'
  BY <1>2 DEF WorkTyped, StoreTypeOK, AttemptWorks, CloserWorks, WorkKnown, Named,
     Working, ReleaseStore, LockReleased, Released, NoClosing
<1>5. WorkKnown' BY <1>1, <1>2, <1>3, <1>4 DEF WorkKnown, Named, Working
<1>6. RowsWhole' BY <1>1, <1>2, <1>3, <1>4 DEF RowsWhole, WorkKnown, NewRows, Named,
         Working
<1>7. NewRows' BY <1>1, <1>2, <1>3, <1>4 DEF NewRows, WorkKnown, Named, RowsWhole
<1>8. OneAttempt' BY <1>1, <1>2, <1>3, <1>4 DEF OneAttempt, WorkKnown, Working, Named,
         NewRows
<1>9. AttemptsStand' BY <1>1, <1>2, <1>3, <1>4 DEF AttemptsStand, WorkKnown, RowsWhole,
         OneAttempt, NewRows, Unkeyed, Working, Named, LockReleased, Linked
<1>10. RowsStand' BY <1>1, <1>2, <1>3, <1>4 DEF RowsStand, WorkKnown, RowsWhole, Cleared,
         AttemptsStand, OneAttempt, Unkeyed, Working, Named, NewRows, LockReleased, Linked
<1> QED BY <1>3, <1>4, <1>5, <1>6, <1>7, <1>8, <1>9, <1>10

LEMMA AttemptKeepsInv ==
  ASSUME StoreInv, NEW a \in Attempts,
         \/ \E o \in Orgs, k \in Kinds : AuthorizeRead(a, o, k)
         \/ ForgetStates(a) \/ AuthorizeAgain(a) \/ AuthorizeNew(a) \/ OpenState(a)
         \/ CallbackNext(a)
  PROVE  StoreInv'
<1> USE DEF Attempt, CallbackStep
<1>t. StoreTypeOK /\ WorkTyped
  BY DEF StoreInv
<1>1. ASSUME NEW o \in Orgs, NEW k \in Kinds, AuthorizeRead(a, o, k) PROVE StoreInv'
  <2>0. attempt[a].pc = "none" /\ UNCHANGED << row, secret, lock, closer, overtaken >>
    BY <1>1 DEF AuthorizeRead
  <2>1. ASSUME NEW r \in Own(o, k), Attempt(a, "again", r) PROVE StoreInv'
    <3>1. r \in Rows /\ row[r].org \in Orgs
      BY <2>1 DEF Own, Linked
    <3> QED BY <2>0, <2>1, <3>1, FindsRowStep
  <2>2. ASSUME NEW r \in Rows, row[r] = Unused, \A b \in Attempts : attempt[b].row # r,
               attempt' = [attempt EXCEPT ![a] = [pc |-> "new", row |-> r, org |-> o, kind |-> k]]
        PROVE  StoreInv'
    BY <2>0, <2>2, FindsNoneStep
  <2> QED BY <1>1, <2>1, <2>2 DEF AuthorizeRead
<1>f. CASE ForgetStates(a)
  BY <1>f, ForgetsStep
<1>2. CASE AuthorizeAgain(a)
  <2>1. CASE attempt' = [attempt EXCEPT ![a] = [pc |-> "over", row |-> attempt[a].row]]
             /\ UNCHANGED << row, overtaken >>
    <3>1. attempt[a].row \in Rows \cup {Vacant}
      BY <1>t DEF StoreTypeOK
    <3> QED BY <1>2, <2>1, <3>1, RefusedStep DEF AuthorizeAgain
  <2>2. CASE attempt' = [attempt EXCEPT ![a] = [pc |-> "reopened", row |-> attempt[a].row]]
    <3>1. attempt'[a].pc = "reopened"
      BY <1>t, <2>2 DEF WorkTyped
    <3> QED BY <1>2, <3>1, AgainStep
  <2> QED BY <1>2, <2>1, <2>2 DEF AuthorizeAgain
<1>3. CASE AuthorizeNew(a)
  <2>1. CASE attempt' = [attempt EXCEPT ![a] = [pc |-> "over", row |-> Vacant]] /\ UNCHANGED row
    BY <1>3, <2>1, RefusedStep DEF AuthorizeNew
  <2>2. CASE attempt' = [attempt EXCEPT ![a] = [pc |-> "reopened", row |-> attempt[a].row]]
    <3>1. attempt'[a].pc = "reopened"
      BY <1>t, <2>2 DEF WorkTyped
    <3> QED BY <1>3, <3>1, NewStep
  <2> QED BY <1>3, <2>1, <2>2 DEF AuthorizeNew
<1>o. CASE OpenState(a)
  BY <1>o, AttemptGoesStep DEF OpenState, Working
<1>4. CASE Consume(a)
  <2>1. attempt[a].pc = "open" /\ UNCHANGED << row, secret, lock, closer, overtaken >>
    BY <1>4 DEF Consume
  <2>2. Attempt(a, "checked", attempt[a].row) \/ Attempt(a, "over", attempt[a].row)
    BY <1>4 DEF Consume
  <2> QED BY <2>1, <2>2, AttemptGoesStep DEF Working
<1>5. CASE Exchange(a)
  BY <1>5, AttemptGoesStep DEF Exchange, Working
<1>6. CASE SaveToken(a)
  BY <1>6, SavesTokenStep
<1>7. CASE Identify(a)
  BY <1>7, AttemptGoesStep DEF Identify, Working
<1>8. CASE Claim(a)
  <2>1. CASE Claimable(row[attempt[a].row].org)
    BY <1>8, <2>1, ClaimsStep
  <2>2. CASE ~Claimable(row[attempt[a].row].org)
    BY <1>8, <2>2, AttemptGoesStep DEF Claim, Working
  <2> QED BY <2>1, <2>2
<1>9. CASE Connect(a)
  <2>1. CASE StillPending(attempt[a].row)
    BY <1>9, <2>1, ConnectsStep
  <2>2. CASE ~StillPending(attempt[a].row)
    BY <1>9, <2>2, AttemptGoesStep DEF Connect, Working
  <2> QED BY <2>1, <2>2
<1>r. CASE RecordConnected(a)
  BY <1>r, RecordsStep
<1>10. CASE CallbackFails(a)
  BY <1>10, AttemptGoesStep DEF CallbackFails, Working
<1>11. CASE ClearSecret(a)
  BY <1>11, ClearsStep
<1>12. CASE MarkError(a)
  BY <1>12, MarksStep
<1>13. CASE GiveUpStore(a)
  BY <1>13, GivesUpStep
<1>14. CASE Crash(a)
  BY <1>14, AttemptGoesStep DEF Crash
<1> QED BY <1>1, <1>f, <1>2, <1>3, <1>o, <1>4, <1>5, <1>6, <1>7, <1>8, <1>9, <1>r, <1>10,
           <1>11, <1>12, <1>13, <1>14 DEF CallbackNext

LEMMA CloserKeepsInv ==
  ASSUME StoreInv, NEW d \in Closers, CloserNext(d)
  PROVE  StoreInv'
<1>t. StoreTypeOK /\ WorkTyped /\ RowsWhole
  BY DEF StoreInv
<1>1. ASSUME NEW r \in Rows, BeginDisconnect(d, r) PROVE StoreInv'
  <2>1. row[r].domain \in BOOLEAN
    BY <1>t DEF StoreTypeOK, StoreRows
  <2> QED BY <1>1, <2>1, BeginsClosingStep DEF BeginDisconnect
<1>2. ASSUME NEW r \in Rows, BeginUninstall(d, r) PROVE StoreInv'
  <2>1. row[r].org # Vacant
    BY <1>t, <1>2 DEF BeginUninstall, RowsWhole, Unused
  <2> QED BY <1>2, <2>1, BeginsClosingStep DEF BeginUninstall
<1>3. CASE Revoke(d)
  <2>1. CASE Close(d, "release")
    <3>1. closer'[d].pc = "release"
      BY <1>t, <2>1 DEF Close, WorkTyped, CloserWorks
    <3> QED BY <1>3, <3>1, RevokesStep
  <2>2. CASE ~Close(d, "release")
    BY <1>3, <2>2, RevokeRefusedStep DEF Revoke
  <2> QED BY <2>1, <2>2
<1> QED BY <1>1, <1>2, <1>3, DeletesSecretStep, DeletesStatesStep, ReleasesStoreStep
        DEF CloserNext

LEMMA StoreInit_Inv == StoreInit => StoreInv
<1> SUFFICES ASSUME StoreInit PROVE StoreInv
  OBVIOUS
<1>1. /\ \A r \in Rows : row[r] = Unused
      /\ \A a \in Attempts : attempt[a].pc = "none" /\ attempt[a].row = Vacant
      /\ \A d \in Closers : closer[d].pc = "none" /\ closer[d].row = Vacant
      /\ Unused.org = Vacant /\ Unused.status = "none"
      /\ overtaken = {}
  BY DEF StoreInit, NoWork, NoClosing, Unused
<1>2. StoreTypeOK
  BY DEF StoreInit, StoreTypeOK, StoreRows, Unused, NoWork, NoClosing
<1>3. WorkTyped
  BY DEF StoreInit, WorkTyped, AttemptWorks, CloserWorks, NoWork, NoClosing
<1> QED BY <1>1, <1>2, <1>3
        DEF StoreInv, WorkKnown, Named, Working, RowsWhole, NewRows, OneAttempt, AttemptsStand,
            RowsStand

LEMMA StoreStep_Inv == StoreInv /\ [StoreNext]_storeVars => StoreInv'
<1> SUFFICES ASSUME StoreInv, [StoreNext]_storeVars PROVE StoreInv'
  OBVIOUS
<1>1. CASE UNCHANGED storeVars
  BY <1>1 DEF storeVars, StoreInv, StoreTypeOK, WorkTyped, WorkKnown, RowsWhole, NewRows,
     OneAttempt, AttemptsStand, RowsStand, Unkeyed, Cleared
<1> QED BY <1>1, AttemptKeepsInv, CloserKeepsInv DEF StoreNext

LEMMA StoreInvHolds == StoreSpec => []StoreInv
BY StoreInit_Inv, StoreStep_Inv, PTL DEF StoreSpec

\* However authorizations, claims, releases, failures, crashes, disconnects and
\* uninstalled apps interleave, a connected store is held by its workspace, a failed
\* connection keeps no token and a connected one has it, for every row that was not
\* made pending while another request worked on it, and for any number of workspaces,
\* providers, rows and requests.
THEOREM StoresStand == StoreSpec => []StoresAreSound
<1>1. StoreInv => StoresAreSound
  <2> SUFFICES ASSUME StoreInv PROVE StoresAreSound
    OBVIOUS
  <2>1. ConnectedHoldsLock
    BY DEF StoreInv, RowsStand, ConnectedHoldsLock
  <2>2. FailedKeepsNoToken
    BY DEF StoreInv, RowsStand, FailedKeepsNoToken
  <2>3. ConnectedHasToken
    <3> SUFFICES ASSUME NEW r \in Rows \ overtaken, row[r].status = "connected", Settled(r),
                        r \notin secret
                 PROVE  FALSE
      BY DEF ConnectedHasToken
    <3>1. ~Unkeyed(r) BY DEF Settled, Busy, Closing, Unkeyed
    <3>2. PICK a \in Attempts : attempt[a].row = r /\ attempt[a].pc \in {"cleared", "dead"}
      BY <3>1 DEF StoreInv, RowsStand, Cleared
    <3>3. attempt[a].pc = "dead" BY <3>2 DEF Settled, Busy, Working
    <3>4. attempt[a] = [pc |-> "dead", row |-> r]
      BY <3>2, <3>3 DEF StoreInv, WorkTyped, AttemptWorks
    <3> QED BY <3>4 DEF Settled
  <2> QED BY <2>1, <2>2, <2>3 DEF StoresAreSound, StoreInv
<1> QED BY <1>1, StoreInvHolds, PTL

\* Two workspaces are never both connected to one store, under whatever providers,
\* unless one of the two rows was made pending while another request worked on it.
THEOREM OneWorkspaceHoldsTheStore == StoreSpec => []OneUndisturbedWorkspace
<1>1. StoreInv => OneUndisturbedWorkspace
  BY DEF StoreInv, RowsStand, OneUndisturbedWorkspace
<1> QED BY <1>1, StoreInvHolds, PTL

-----------------------------------------------------------------------------
(* Turns: the minutes of the scheduler (SyncTick).                         *)

Reading(s) == \E w \in Workers : job[w].pc = "read" /\ job[w].schedule = s

\* Those that would be taken up before s at the next tick.
AheadOf(s) == {t \in Schedules \ {s} : lease[t] = 0 /\ ~Reading(t) /\ Before(t, s)}

Jobs == {Off} \cup [pc : {"read", "run"}, schedule : Schedules, failures : 0..MaxFailures]

TickTyped ==
    /\ TickTypeOK
    /\ job \in [Workers -> Jobs]
    /\ passed \in [Schedules -> Nat]
    /\ failing \in [Schedules -> Nat]

\* Rows are claimed in the minute in which a tick reads them.
ReadsAreFresh == ~ticked => \A w \in Workers : job[w].pc # "read"

\* Nobody counts as passed over before it is due, nor when it is just taken up.
WaitsStartAtZero == \A s \in Schedules : overdue[s] < 0 \/ Reading(s) => passed[s] = 0

\* Every tick that passes s over takes Limit of those ahead of it, and only a lease
\* that runs out puts one of them back there.
TurnsHold ==
    \A s \in Schedules :
        passed[s] * Limit + Cardinality(AheadOf(s)) <= Cardinality(Schedules) - 1 + lapses

\* The count a job writes is the one it read: whoever changed the row since then
\* either gave it a later next_run_at, and the claim fails, or lost the lease.
CountsHold ==
    /\ failures = failing
    /\ \A w \in Workers : LET s == job[w].schedule IN
          /\ job[w].pc = "read" => job[w].failures = failures[s] \/ overdue[s] < 0
          /\ job[w].pc = "run" /\ owner[s] = w => job[w].failures = failures[s]

TickInv == TickTyped /\ ReadsAreFresh /\ WaitsStartAtZero /\ TurnsHold /\ CountsHold

\* A set of others: finite, and at most all of them.
LEMMA OthersBound ==
  ASSUME NEW s \in Schedules, NEW A, A \subseteq Schedules \ {s}
  PROVE  /\ IsFiniteSet(A) /\ Cardinality(A) \in Nat
         /\ Cardinality(Schedules) \in Nat
         /\ Cardinality(A) <= Cardinality(Schedules) - 1
<1>1. IsFiniteSet(Schedules) BY TickAssumption
<1>2. IsFiniteSet(Schedules \ {s}) /\ Cardinality(Schedules \ {s}) = Cardinality(Schedules) - 1
  BY <1>1, FS_RemoveElement
<1>3. A \in SUBSET (Schedules \ {s}) OBVIOUS
<1>4. IsFiniteSet(A) /\ Cardinality(A) <= Cardinality(Schedules \ {s})
  BY <1>2, <1>3, FS_Subset
<1> QED BY <1>1, <1>2, <1>4, FS_CardinalityType

\* At most all the others are ahead of anyone.
LEMMA AheadIsOthers ==
  ASSUME NEW s \in Schedules
  PROVE  /\ IsFiniteSet(AheadOf(s)) /\ Cardinality(AheadOf(s)) \in Nat
         /\ Cardinality(Schedules) \in Nat
         /\ Cardinality(AheadOf(s)) <= Cardinality(Schedules) - 1
<1>1. AheadOf(s) \subseteq Schedules \ {s} BY DEF AheadOf
<1> QED BY <1>1, OthersBound

\* A nonempty set of naturals has a least element.
LEMMA LeastOf ==
  ASSUME NEW T \in SUBSET Nat, T # {}
  PROVE  \E x \in T : \A y \in T : x <= y
<1>1. PICK x \in T : \A y \in T : ~(<< y, x >> \in OpToRel(<, Nat))
  BY WFMin, NatLessThanWellFounded
<1>2. \A y \in T : ~(y < x)
  BY <1>1 DEF OpToRel
<1> QED BY <1>2

LEMMA MinOfTwo ==
  ASSUME NEW a \in Int, NEW b \in Int
  PROVE  Min({a, b}) = IF a <= b THEN a ELSE b
<1> DEFINE m == IF a <= b THEN a ELSE b
<1>1. m \in {a, b} /\ \A y \in {a, b} : m <= y OBVIOUS
<1>2. \A x \in {a, b} : (\A y \in {a, b} : x <= y) => x = m OBVIOUS
<1> HIDE DEF m
<1>3. Min({a, b}) = m BY <1>1, <1>2 DEF Min
<1> QED BY <1>3 DEF m

LEMMA MaxOfTwo ==
  ASSUME NEW a \in Int, NEW b \in Int
  PROVE  Max({a, b}) = IF a >= b THEN a ELSE b
<1> DEFINE m == IF a >= b THEN a ELSE b
<1>1. m \in {a, b} /\ \A y \in {a, b} : m >= y OBVIOUS
<1>2. \A x \in {a, b} : (\A y \in {a, b} : x >= y) => x = m OBVIOUS
<1> HIDE DEF m
<1>3. Max({a, b}) = m BY <1>1, <1>2 DEF Max
<1> QED BY <1>3 DEF m

\* A retry comes after a minute at the earliest and after MaxDelay at the latest.
LEMMA RetryRange ==
  ASSUME NEW n \in Nat
  PROVE  RetryDelay(n) \in 1..MaxDelay
<1> DEFINE d == IF n > 6 THEN 6 ELSE IF n > 0 THEN n - 1 ELSE 0
<1>1. Min({6, Max({0, n - 1})}) = d BY MinOfTwo, MaxOfTwo
<1>2. d \in {0, 1, 2, 3, 4, 5, 6} OBVIOUS
<1>3. /\ 2 ^ 0 = 1 /\ 2 ^ 1 = 2 /\ 2 ^ 2 = 4 /\ 2 ^ 3 = 8
      /\ 2 ^ 4 = 16 /\ 2 ^ 5 = 32 /\ 2 ^ 6 = 64
  OBVIOUS
<1> HIDE DEF d
<1>4. 2 ^ d \in {1, 2, 4, 8, 16, 32, 64} BY <1>2, <1>3
<1>5. RetryDelay(n) = Min({MaxDelay, 2 ^ d}) BY <1>1 DEF RetryDelay
<1>6. MaxDelay \in Nat \ {0} BY TickAssumption
<1> DEFINE k == 2 ^ d
<1>7. k \in Nat \ {0} BY <1>4
<1> HIDE DEF k
<1>8. Min({MaxDelay, k}) = IF MaxDelay <= k THEN MaxDelay ELSE k BY <1>6, <1>7, MinOfTwo
<1>9. RetryDelay(n) = Min({MaxDelay, k}) BY <1>5 DEF k
<1> QED BY <1>6, <1>7, <1>8, <1>9

LEMMA NextDelayRange ==
  ASSUME NEW n \in Nat, NEW outcome \in {"failed", "more", "complete"}
  PROVE  /\ NextDelay(outcome, n) \in Nat \ {0}
         /\ NextDelay(outcome, n) <= Interval \/ NextDelay(outcome, n) <= MaxDelay
<1>1. Interval \in Nat \ {0} /\ MaxDelay \in Nat \ {0} BY TickAssumption
<1>2. RetryDelay(n) \in 1..MaxDelay BY RetryRange
<1> QED BY <1>1, <1>2 DEF NextDelay

\* The order of the query is a strict order.
LEMMA BeforeOrders ==
  ASSUME TickTyped, NEW s \in Schedules, NEW t \in Schedules, NEW u \in Schedules
  PROVE  /\ ~Before(s, s)
         /\ Before(s, t) => ~Before(t, s)
         /\ Before(s, t) /\ Before(t, u) => Before(s, u)
         /\ s # t => Before(s, t) \/ Before(t, s)
<1>1. s \in Nat /\ t \in Nat /\ u \in Nat BY TickAssumption
<1>2. /\ overdue[s] \in Int /\ overdue[t] \in Int /\ overdue[u] \in Int
      /\ started[s] \in Nat /\ started[t] \in Nat /\ started[u] \in Nat
  BY DEF TickTyped, TickTypeOK
<1> QED BY <1>1, <1>2 DEF Before

LEMMA DueFinite == IsFiniteSet(Due) /\ Due \subseteq Schedules
<1>1. Due \in SUBSET Schedules BY DEF Due
<1> QED BY <1>1, TickAssumption, FS_Subset

\* Whoever a tick passes over sees Limit others taken up, all of them before it.
LEMMA LimitAreTaken ==
  ASSUME TickTyped, NEW s \in Due, s \notin Picked
  PROVE  Cardinality({t \in Picked : Before(t, s)}) >= Limit
<1> DEFINE Prior(u) == {t \in Due \ {u} : Before(t, u)}
           P == {t \in Picked : Before(t, s)}
           U == Prior(s) \ P
<1>0. Limit \in Nat \ {0} BY TickAssumption
<1>1. ASSUME NEW u \in Due
      PROVE  IsFiniteSet(Prior(u)) /\ Cardinality(Prior(u)) \in Nat
  <2>1. Prior(u) \in SUBSET Due OBVIOUS
  <2>2. IsFiniteSet(Prior(u)) BY <2>1, DueFinite, FS_Subset
  <2> QED BY <2>2, FS_CardinalityType
<1>2. \A u \in Due : u \in Picked <=> Cardinality(Prior(u)) < Limit BY DEF Picked
<1>3. P \in SUBSET Prior(s)
  <2>1. Picked \subseteq Due BY DEF Picked
  <2> QED BY <2>1
<1>4. IsFiniteSet(P) /\ Cardinality(P) \in Nat
  <2>1. IsFiniteSet(Prior(s)) BY <1>1
  <2>2. IsFiniteSet(P) BY <1>3, <2>1, FS_Subset
  <2> QED BY <2>2, FS_CardinalityType
<1> SUFFICES ASSUME Cardinality(P) < Limit PROVE FALSE BY <1>0, <1>4
<1>5. U # {}
  <2>1. SUFFICES ASSUME U = {} PROVE FALSE OBVIOUS
  <2>2. P = Prior(s) BY <2>1, <1>3
  <2>3. Cardinality(Prior(s)) < Limit BY <2>2
  <2> QED BY <2>3, <1>2
<1> DEFINE Ranks == {Cardinality(Prior(u)) : u \in U}
<1>6. U \subseteq Due OBVIOUS
<1>7. Ranks \in SUBSET Nat /\ Ranks # {}
  <2>1. Ranks \subseteq Nat BY <1>1, <1>6
  <2> HIDE DEF U, Prior
  <2> QED BY <2>1, <1>5
<1>8. PICK u \in U : \A v \in U : Cardinality(Prior(u)) <= Cardinality(Prior(v))
  <2>1. PICK x \in Ranks : \A y \in Ranks : x <= y BY <1>7, LeastOf
  <2>2. PICK u \in U : x = Cardinality(Prior(u)) BY <2>1
  <2> HIDE DEF U, Prior
  <2> QED BY <2>1, <2>2
<1>9. u \in Due /\ Before(u, s) /\ u \notin Picked
  <2>1. u \in Prior(s) /\ u \notin P BY <1>8
  <2> QED BY <2>1
<1>10. ASSUME NEW t \in Prior(u), t \notin P PROVE FALSE
  <2>1. t \in Due /\ t # u /\ Before(t, u) OBVIOUS
  <2>2. s \in Schedules /\ t \in Schedules /\ u \in Schedules BY <1>9, <2>1, DueFinite
  <2>3. Before(t, s) /\ t # s BY <1>9, <2>1, <2>2, BeforeOrders
  <2>4. t \in U BY <2>1, <2>3, <1>10
  <2>5. Prior(t) \in SUBSET Prior(u)
    <3>1. ASSUME NEW v \in Prior(t) PROVE v \in Prior(u)
      <4>1. v \in Due /\ Before(v, t) OBVIOUS
      <4>2. v \in Schedules BY <4>1, DueFinite
      <4>3. Before(v, u) /\ v # u BY <4>1, <4>2, <2>1, <2>2, BeforeOrders
      <4> QED BY <4>1, <4>3
    <3> QED BY <3>1
  <2>6. t \in Prior(u) \ Prior(t) BY <2>1
  <2>7. /\ Cardinality(Prior(t)) <= Cardinality(Prior(u))
        /\ Cardinality(Prior(t)) = Cardinality(Prior(u)) => Prior(u) = Prior(t)
    <3>1. IsFiniteSet(Prior(u)) BY <1>1, <1>9
    <3> HIDE DEF Prior
    <3> QED BY <3>1, <2>5, FS_Subset
  <2>8. Cardinality(Prior(t)) \in Nat /\ Cardinality(Prior(u)) \in Nat BY <1>1, <1>9, <2>1
  <2>9. Cardinality(Prior(u)) <= Cardinality(Prior(t)) BY <1>8, <2>4
  <2> HIDE DEF Prior
  <2> QED BY <2>6, <2>7, <2>8, <2>9
<1>11. Prior(u) \in SUBSET P BY <1>10
<1>12. Cardinality(Prior(u)) <= Cardinality(P)
  <2> HIDE DEF Prior, P
  <2> QED BY <1>4, <1>11, FS_Subset
<1>13. ~(Cardinality(Prior(u)) < Limit) BY <1>2, <1>9
<1>14. Cardinality(Prior(u)) \in Nat BY <1>1, <1>9
<1> HIDE DEF Prior, P
<1> QED BY <1>0, <1>4, <1>12, <1>13, <1>14

\* As many workers as rows: each row gets one of its own.
LEMMA PlacesExist ==
  ASSUME NEW S, IsFiniteSet(S), NEW T, IsFiniteSet(T), Cardinality(S) <= Cardinality(T)
  PROVE  \E f \in [S -> T] : \A s, t \in S : f[s] = f[t] => s = t
<1>1. /\ Cardinality(S) \in Nat /\ ExistsBijection(1..Cardinality(S), S)
      /\ Cardinality(T) \in Nat /\ ExistsBijection(1..Cardinality(T), T)
  BY FS_CardinalityType
<1> DEFINE m == Cardinality(S)
           n == Cardinality(T)
<1>2. PICK g : g \in Bijection(1..m, S) BY <1>1 DEF ExistsBijection
<1>3. PICK h : h \in Bijection(1..n, T) BY <1>1 DEF ExistsBijection
<1> HIDE DEF m, n
<1>4. m \in Nat /\ n \in Nat /\ m <= n BY <1>1 DEF m, n
<1>5. /\ g \in [1..m -> S] /\ \A x \in S : \E i \in 1..m : g[i] = x
      /\ h \in [1..n -> T] /\ \A i, j \in 1..n : h[i] = h[j] => i = j
  BY <1>2, <1>3 DEF Bijection, Injection, Surjection, IsInjective
<1> DEFINE Index(x) == CHOOSE i \in 1..m : g[i] = x
           f == [x \in S |-> h[Index(x)]]
<1>6. \A x \in S : Index(x) \in 1..m /\ g[Index(x)] = x BY <1>5
<1> HIDE DEF Index
<1>7. \A x \in S : Index(x) \in 1..n BY <1>4, <1>6
<1>8. f \in [S -> T] BY <1>5, <1>7
<1>9. ASSUME NEW s \in S, NEW t \in S, f[s] = f[t] PROVE s = t
  <2>1. h[Index(s)] = h[Index(t)] BY <1>9
  <2>2. Index(s) = Index(t) BY <2>1, <1>5, <1>7
  <2> QED BY <2>2, <1>6
<1> QED BY <1>8, <1>9

\* A tick gives every row it picks to a worker, as it found it, and nothing else.
LEMMA TickReads ==
  ASSUME TickTyped, Tick
  PROVE  /\ \A w \in Workers :
               \/ job'[w] = job[w]
               \/ \E s \in Picked : job'[w] = [pc |-> "read", schedule |-> s,
                                               failures |-> failures[s]]
         /\ \A s \in Picked : \E w \in Workers :
               job'[w] = [pc |-> "read", schedule |-> s, failures |-> failures[s]]
         /\ job' \in [Workers -> Jobs]
<1> DEFINE idle == {w \in Workers : job[w] = Off}
           place == CHOOSE f \in [Picked -> idle] : \A s, t \in Picked : f[s] = f[t] => s = t
           taken(s) == [pc |-> "read", schedule |-> s, failures |-> failures[s]]
<1>1. Cardinality(idle) >= Cardinality(Picked) BY DEF Tick
<1>2. IsFiniteSet(idle)
  <2>1. idle \in SUBSET Workers OBVIOUS
  <2> HIDE DEF idle
  <2> QED BY <2>1, TickAssumption, FS_Subset
<1>3. IsFiniteSet(Picked) /\ Picked \subseteq Schedules
  <2>1. Picked \in SUBSET Due BY DEF Picked
  <2> QED BY <2>1, DueFinite, FS_Subset
<1>4. place \in [Picked -> idle] /\ \A s, t \in Picked : place[s] = place[t] => s = t
  <2> HIDE DEF idle
  <2>1. Cardinality(Picked) <= Cardinality(idle)
    BY <1>1, <1>2, <1>3, FS_CardinalityType
  <2>2. \E f \in [Picked -> idle] : \A s, t \in Picked : f[s] = f[t] => s = t
    BY <2>1, <1>2, <1>3, PlacesExist
  <2> QED BY <2>2
<1>5. job' = [w \in Workers |->
                IF \E s \in Picked : place[s] = w
                THEN LET s == CHOOSE s \in Picked : place[s] = w IN taken(s)
                ELSE job[w]]
  BY DEF Tick
<1>6. idle \subseteq Workers OBVIOUS
<1> HIDE DEF place, idle
<1>7. ASSUME NEW s \in Picked PROVE place[s] \in Workers /\ job'[place[s]] = taken(s)
  <2>1. place[s] \in Workers BY <1>4, <1>6
  <2>2. (CHOOSE t \in Picked : place[t] = place[s]) = s BY <1>4
  <2> QED BY <1>5, <2>1, <2>2
<1>8. ASSUME NEW w \in Workers
      PROVE  job'[w] = job[w] \/ \E s \in Picked : job'[w] = taken(s)
  <2>1. CASE \E s \in Picked : place[s] = w BY <2>1, <1>7
  <2>2. CASE ~\E s \in Picked : place[s] = w BY <2>2, <1>5
  <2> QED BY <2>1, <2>2
<1>9. \A s \in Picked : taken(s) \in Jobs
  BY <1>3 DEF Jobs, TickTyped, TickTypeOK
<1>10. job' \in [Workers -> Jobs]
  <2>1. \A w \in Workers : job'[w] \in Jobs
    <3>1. \A w \in Workers : job[w] \in Jobs BY DEF TickTyped
    <3> HIDE DEF taken
    <3> QED BY <3>1, <1>8, <1>9
  <2> HIDE DEF taken
  <2>2. job' = [w \in Workers |-> job'[w]] BY <1>5
  <2> QED BY <2>1, <2>2
<1>11. \A s \in Picked : \E w \in Workers : job'[w] = taken(s) BY <1>7
<1> QED BY <1>8, <1>10, <1>11

LEMMA TickInitHolds == ASSUME TickInit PROVE TickInv
<1>1. TickTyped
  <2>1. TickTypeOK
    <3>1. /\ overdue \in [Schedules -> Int] /\ started \in [Schedules -> Nat]
          /\ owner \in [Schedules -> Workers \cup {NoWorker}]
      BY DEF TickInit, Never
    <3>2. lease \in [Schedules -> 0..LeaseTime] /\ failures \in [Schedules -> 0..MaxFailures]
      BY TickAssumption DEF TickInit
    <3>3. \A s \in Schedules : overdue[s] >= -Interval \/ overdue[s] >= -MaxDelay
      BY TickAssumption DEF TickInit
    <3>4. lapses \in 0..MaxLapses /\ lost \in 0..MaxLost BY TickAssumption DEF TickInit
    <3>5. ticked \in BOOLEAN BY DEF TickInit
    <3> QED BY <3>1, <3>2, <3>3, <3>4, <3>5 DEF TickTypeOK
  <2>2. job \in [Workers -> Jobs] BY DEF TickInit, Jobs
  <2>3. passed \in [Schedules -> Nat] /\ failing \in [Schedules -> Nat] BY DEF TickInit
  <2> QED BY <2>1, <2>2, <2>3 DEF TickTyped
<1>2. ReadsAreFresh BY DEF TickInit, ReadsAreFresh, Off
<1>3. WaitsStartAtZero BY DEF TickInit, WaitsStartAtZero
<1>4. CountsHold
  BY TickAssumption DEF TickInit, CountsHold, Off
<1>5. TurnsHold
  <2> SUFFICES ASSUME NEW s \in Schedules
               PROVE passed[s] * Limit + Cardinality(AheadOf(s))
                         <= Cardinality(Schedules) - 1 + lapses
    BY DEF TurnsHold
  <2>1. passed[s] = 0 /\ lapses = 0 BY DEF TickInit
  <2> QED BY <2>1, TickAssumption, AheadIsOthers
<1> QED BY <1>1, <1>2, <1>3, <1>4, <1>5 DEF TickInv

\* What the kinds of steps do to a job.
LEMMA JobTypes ==
  ASSUME TickTyped, NEW w \in Workers, job[w].pc # "off"
  PROVE  /\ job[w] \in [pc : {"read", "run"}, schedule : Schedules, failures : 0..MaxFailures]
         /\ job[w].schedule \in Schedules /\ job[w].failures \in 0..MaxFailures
<1>1. job[w] \in Jobs /\ job[w] # Off BY DEF TickTyped, Off
<1>2. job[w] \in [pc : {"read", "run"}, schedule : Schedules, failures : 0..MaxFailures]
  BY <1>1 DEF Jobs
<1> QED BY <1>2

LEMMA TickType ==
  ASSUME TickTyped, Tick PROVE TickTyped'
<1>1. job' \in [Workers -> Jobs] BY TickReads
<1>2. passed' \in [Schedules -> Nat] BY DEF Tick, TickTyped
<1>3. TickTypeOK'
  <2>1. TickTypeOK BY DEF TickTyped
  <2> QED BY <2>1 DEF Tick, TickTypeOK
<1>4. failing' \in [Schedules -> Nat] BY DEF Tick, TickTyped
<1> QED BY <1>1, <1>2, <1>3, <1>4 DEF TickTyped

LEMMA LoseTickType ==
  ASSUME TickTyped, LoseTick PROVE TickTyped'
<1>1. TickTypeOK'
  <2>1. lost' \in 0..MaxLost BY TickAssumption DEF LoseTick, TickTyped, TickTypeOK
  <2> QED BY <2>1 DEF LoseTick, TickTyped, TickTypeOK
<1> QED BY <1>1 DEF LoseTick, TickTyped

LEMMA LeaseLess ==
  ASSUME TickTyped, NEW s \in Schedules
  PROVE  /\ lease[s] \in Nat /\ lease[s] <= LeaseTime
         /\ Max({0, lease[s] - 1}) = IF lease[s] >= 1 THEN lease[s] - 1 ELSE 0
<1>1. lease[s] \in Nat /\ lease[s] <= LeaseTime
  BY TickAssumption DEF TickTyped, TickTypeOK
<1> DEFINE k == lease[s] - 1
<1>2. k \in Int BY <1>1
<1>3. Max({0, k}) = IF 0 >= k THEN 0 ELSE k BY <1>2, MaxOfTwo
<1> QED BY <1>1, <1>3

LEMMA MinuteType ==
  ASSUME TickTyped, Minute PROVE TickTyped'
<1>1. /\ overdue' \in [Schedules -> Int]
      /\ \A s \in Schedules : overdue'[s] >= -Interval \/ overdue'[s] >= -MaxDelay
  BY TickAssumption DEF Minute, TickTyped, TickTypeOK
<1>2. started' \in [Schedules -> Nat] BY DEF Minute, TickTyped, TickTypeOK
<1>3. lease' \in [Schedules -> 0..LeaseTime]
  <2>1. \A s \in Schedules : Max({0, lease[s] - 1}) \in 0..LeaseTime
    BY LeaseLess, TickAssumption
  <2> QED BY <2>1 DEF Minute
<1>4. lapses' \in 0..MaxLapses
  <2> DEFINE L == {s \in Schedules : lease[s] = 1}
  <2>1. L \in SUBSET Schedules OBVIOUS
  <2> HIDE DEF L
  <2>2. Cardinality(L) \in Nat BY <2>1, TickAssumption, FS_Subset, FS_CardinalityType
  <2>3. lapses' = lapses + Cardinality(L) /\ lapses' <= MaxLapses BY DEF Minute, L
  <2>4. lapses \in 0..MaxLapses BY DEF TickTyped, TickTypeOK
  <2> QED BY <2>2, <2>3, <2>4, TickAssumption
<1>5. ticked' \in BOOLEAN BY DEF Minute
<1>6. UNCHANGED << owner, failures, job, lost, passed, failing >> BY DEF Minute
<1> QED BY <1>1, <1>2, <1>3, <1>4, <1>5, <1>6 DEF TickTyped, TickTypeOK

LEMMA OffTyped ==
  ASSUME TickTyped, NEW w \in Workers, Do(w, Off)
  PROVE  job' \in [Workers -> Jobs]
BY DEF TickTyped, Do, Jobs

LEMMA ClaimJobType ==
  ASSUME TickTyped, NEW w \in Workers, ClaimJob(w) PROVE TickTyped'
<1> DEFINE s == job[w].schedule
<1>1. job[w].pc # "off" BY DEF ClaimJob
<1>2. s \in Schedules /\ job[w] \in [pc : {"read", "run"}, schedule : Schedules,
                                     failures : 0..MaxFailures]
  BY <1>1, JobTypes
<1>3. UNCHANGED << overdue, failures, ticked, lapses, lost, passed, failing >>
  BY DEF ClaimJob
<1>4. CASE overdue[s] >= 0 /\ lease[s] = 0
  <2>1. /\ lease' = [lease EXCEPT ![s] = LeaseTime]
        /\ owner' = [owner EXCEPT ![s] = w]
        /\ started' = [started EXCEPT ![s] = 0]
        /\ job' = [job EXCEPT ![w] = [job[w] EXCEPT !.pc = "run"]]
    BY <1>4 DEF ClaimJob, Do
  <2>2. [job[w] EXCEPT !.pc = "run"] \in Jobs BY <1>2 DEF Jobs
  <2>3. job' \in [Workers -> Jobs]
    <3>1. job \in [Workers -> Jobs] BY DEF TickTyped
    <3> QED BY <3>1, <2>1, <2>2
  <2>4. /\ lease' \in [Schedules -> 0..LeaseTime]
        /\ owner' \in [Schedules -> Workers \cup {NoWorker}]
        /\ started' \in [Schedules -> Nat]
    BY <1>2, <2>1, TickAssumption DEF TickTyped, TickTypeOK
  <2> HIDE DEF s
  <2> QED BY <1>3, <2>3, <2>4 DEF TickTyped, TickTypeOK
<1>5. CASE ~(overdue[s] >= 0 /\ lease[s] = 0)
  <2>1. Do(w, Off) /\ UNCHANGED << lease, owner, started >> BY <1>5 DEF ClaimJob
  <2>2. job' \in [Workers -> Jobs] BY <2>1, OffTyped
  <2> HIDE DEF s
  <2> QED BY <1>3, <2>1, <2>2 DEF TickTyped, TickTypeOK
<1> QED BY <1>4, <1>5

LEMMA JobDiesType ==
  ASSUME TickTyped, NEW w \in Workers, JobDies(w) PROVE TickTyped'
<1>1. job' \in [Workers -> Jobs] BY OffTyped DEF JobDies
<1> QED BY <1>1 DEF JobDies, TickTyped, TickTypeOK

\* What the owner of a lease leaves behind.
LEMMA FinishLeaves ==
  ASSUME TickTyped, NEW w \in Workers, NEW outcome \in {"failed", "more", "complete"},
         FinishJob(w, outcome)
  PROVE  LET s == job[w].schedule IN
         /\ s \in Schedules /\ job[w].pc = "run"
         /\ FailuresAfter(w, outcome) \in 0..MaxFailures
         /\ -NextDelay(outcome, FailuresAfter(w, outcome)) \in Int
         /\ -NextDelay(outcome, FailuresAfter(w, outcome)) < 0
         /\ \/ -NextDelay(outcome, FailuresAfter(w, outcome)) >= -Interval
            \/ -NextDelay(outcome, FailuresAfter(w, outcome)) >= -MaxDelay
<1>1. job[w].pc = "run" /\ (outcome = "failed" => job[w].failures < MaxFailures)
  BY DEF FinishJob
<1>2. job[w].schedule \in Schedules /\ job[w].failures \in 0..MaxFailures
  BY <1>1, JobTypes
<1>3. FailuresAfter(w, outcome) \in 0..MaxFailures
  BY <1>1, <1>2, TickAssumption DEF FailuresAfter
<1> DEFINE n == FailuresAfter(w, outcome)
           d == NextDelay(outcome, n)
<1>4. n \in Nat BY <1>3
<1> HIDE DEF n
<1>5. d \in Nat \ {0} /\ (d <= Interval \/ d <= MaxDelay) BY <1>4, NextDelayRange
<1> HIDE DEF d
<1>6. -d \in Int /\ -d < 0 /\ (-d >= -Interval \/ -d >= -MaxDelay)
  BY <1>5, TickAssumption
<1> QED BY <1>1, <1>2, <1>3, <1>6 DEF d, n

LEMMA FinishJobType ==
  ASSUME TickTyped, NEW w \in Workers, NEW outcome \in {"failed", "more", "complete"},
         FinishJob(w, outcome)
  PROVE  TickTyped'
<1> DEFINE s == job[w].schedule
           n == FailuresAfter(w, outcome)
           d == -NextDelay(outcome, n)
<1>1. /\ s \in Schedules /\ n \in 0..MaxFailures
      /\ d \in Int /\ (d >= -Interval \/ d >= -MaxDelay)
  BY FinishLeaves
<1>2. Do(w, Off) /\ UNCHANGED << started, ticked, lapses, lost >> BY DEF FinishJob
<1>3. job' \in [Workers -> Jobs] BY <1>2, OffTyped
<1>4. CASE owner[s] = w
  <2>1. /\ failures' = [failures EXCEPT ![s] = n]
        /\ overdue' = [overdue EXCEPT ![s] = d]
        /\ lease' = [lease EXCEPT ![s] = 0]
        /\ owner' = [owner EXCEPT ![s] = NoWorker]
        /\ failing' = [failing EXCEPT ![s] = IF outcome = "failed" THEN @ + 1 ELSE 0]
        /\ passed' = [passed EXCEPT ![s] = 0]
    BY <1>4 DEF FinishJob
  <2> HIDE DEF s, n, d
  <2>2. failures' \in [Schedules -> 0..MaxFailures] BY <1>1, <2>1 DEF TickTyped, TickTypeOK
  <2>3. /\ overdue' \in [Schedules -> Int]
        /\ \A t \in Schedules : overdue'[t] >= -Interval \/ overdue'[t] >= -MaxDelay
    BY <1>1, <2>1 DEF TickTyped, TickTypeOK
  <2>4. /\ lease' \in [Schedules -> 0..LeaseTime]
        /\ owner' \in [Schedules -> Workers \cup {NoWorker}]
    BY <1>1, <2>1, TickAssumption DEF TickTyped, TickTypeOK
  <2>5. failing' \in [Schedules -> Nat] /\ passed' \in [Schedules -> Nat]
    BY <1>1, <2>1 DEF TickTyped
  <2> QED BY <1>2, <1>3, <2>2, <2>3, <2>4, <2>5 DEF TickTyped, TickTypeOK
<1>5. CASE owner[s] # w
  <2>1. UNCHANGED << failures, overdue, lease, owner, failing, passed >>
    BY <1>5 DEF FinishJob
  <2> HIDE DEF s, n, d
  <2> QED BY <1>2, <1>3, <2>1 DEF TickTyped, TickTypeOK
<1> QED BY <1>4, <1>5

\* After a tick, the rows being read are those it picked.
LEMMA ReadsArePicked ==
  ASSUME TickTyped, ReadsAreFresh, Tick, NEW s
  PROVE  Reading(s)' <=> s \in Picked
<1>1. \A w \in Workers : job[w].pc # "read" BY DEF Tick, ReadsAreFresh
<1>2. ASSUME NEW w \in Workers, job'[w].pc = "read", job'[w].schedule = s PROVE s \in Picked
  <2>1. job'[w] # job[w] BY <1>1, <1>2
  <2> QED BY <2>1, <1>2, TickReads
<1>3. ASSUME s \in Picked
      PROVE  \E w \in Workers : job'[w].pc = "read" /\ job'[w].schedule = s
  <2>1. PICK w \in Workers :
          job'[w] = [pc |-> "read", schedule |-> s, failures |-> failures[s]]
    BY <1>3, TickReads
  <2> QED BY <2>1
<1> QED BY <1>2, <1>3 DEF Reading

LEMMA ReadsStayFresh ==
  ASSUME TickTyped, ReadsAreFresh, TickNext PROVE ReadsAreFresh'
<1>1. ASSUME Tick PROVE ReadsAreFresh' BY <1>1 DEF Tick, ReadsAreFresh
<1>2. ASSUME LoseTick PROVE ReadsAreFresh' BY <1>2 DEF LoseTick, ReadsAreFresh
<1>3. ASSUME Minute PROVE ReadsAreFresh' BY <1>3 DEF Minute, ReadsAreFresh
<1>4. ASSUME NEW w \in Workers, ticked' = ticked,
             job' = [job EXCEPT ![w] = job'[w]], job'[w].pc # "read"
      PROVE  ReadsAreFresh'
  <2>1. \A v \in Workers \ {w} : job'[v] = job[v] BY <1>4 DEF TickTyped
  <2> QED BY <2>1, <1>4 DEF ReadsAreFresh
<1>5. ASSUME NEW w \in Workers, ClaimJob(w) PROVE ReadsAreFresh'
  <2>1. \/ job' = [job EXCEPT ![w] = [job[w] EXCEPT !.pc = "run"]]
        \/ job' = [job EXCEPT ![w] = Off]
    BY <1>5 DEF ClaimJob, Do
  <2>2. job[w] \in [pc : {"read", "run"}, schedule : Schedules, failures : 0..MaxFailures]
    BY <1>5, JobTypes DEF ClaimJob
  <2>3. job'[w].pc # "read" /\ job' = [job EXCEPT ![w] = job'[w]]
    BY <2>1, <2>2 DEF TickTyped, Off
  <2> QED BY <1>4, <2>3, <1>5 DEF ClaimJob
<1>6. ASSUME NEW w \in Workers, Do(w, Off), ticked' = ticked PROVE ReadsAreFresh'
  BY <1>4, <1>6 DEF TickTyped, Do, Off
<1>7. ASSUME NEW w \in Workers, JobDies(w) PROVE ReadsAreFresh' BY <1>6, <1>7 DEF JobDies
<1>8. ASSUME NEW w \in Workers, NEW outcome \in {"failed", "more", "complete"},
             FinishJob(w, outcome)
      PROVE  ReadsAreFresh'
  BY <1>6, <1>8 DEF FinishJob
<1> QED BY <1>1, <1>2, <1>3, <1>5, <1>7, <1>8 DEF TickNext

\* A job that leaves its row as it is: the others read what they read.
LEMMA ReadingShrinks ==
  ASSUME TickTyped, NEW w \in Workers, job' = [job EXCEPT ![w] = job'[w]],
         job'[w].pc # "read", NEW s, Reading(s)'
  PROVE  Reading(s)
<1>1. PICK v \in Workers : job'[v].pc = "read" /\ job'[v].schedule = s BY DEF Reading
<1>2. v # w /\ job'[v] = job[v] BY <1>1 DEF TickTyped
<1> QED BY <1>1, <1>2 DEF Reading

LEMMA ReadingElsewhere ==
  ASSUME TickTyped, NEW w \in Workers, job' = [job EXCEPT ![w] = job'[w]],
         NEW s, Reading(s), job[w].pc = "read" => job[w].schedule # s
  PROVE  Reading(s)'
<1>1. PICK v \in Workers : job[v].pc = "read" /\ job[v].schedule = s BY DEF Reading
<1>2. v # w /\ job'[v] = job[v] BY <1>1 DEF TickTyped
<1> QED BY <1>1, <1>2 DEF Reading

LEMMA WaitsStayZero ==
  ASSUME TickInv, TickNext PROVE WaitsStartAtZero'
<1>0. TickTyped /\ ReadsAreFresh /\ WaitsStartAtZero BY DEF TickInv
<1>1. ASSUME Tick PROVE WaitsStartAtZero'
  <2> SUFFICES ASSUME NEW s \in Schedules, overdue'[s] < 0 \/ Reading(s)'
               PROVE passed'[s] = 0
    BY DEF WaitsStartAtZero
  <2>1. passed'[s] = IF s \in Picked THEN 0 ELSE IF s \in Due THEN passed[s] + 1 ELSE passed[s]
    BY <1>1 DEF Tick
  <2>2. CASE s \in Picked BY <2>1, <2>2
  <2>3. CASE s \notin Picked
    <3>1. overdue[s] < 0 BY <1>0, <1>1, <2>3, ReadsArePicked DEF Tick
    <3>2. s \notin Due BY <3>1, <1>0 DEF Due, TickTyped, TickTypeOK
    <3>3. passed[s] = 0 BY <3>1, <1>0 DEF WaitsStartAtZero
    <3> QED BY <2>1, <2>3, <3>2, <3>3
  <2> QED BY <2>2, <2>3
<1>2. ASSUME LoseTick PROVE WaitsStartAtZero'
  BY <1>0, <1>2 DEF LoseTick, WaitsStartAtZero, Reading
<1>3. ASSUME Minute PROVE WaitsStartAtZero'
  <2> SUFFICES ASSUME NEW s \in Schedules, overdue'[s] < 0 \/ Reading(s)'
               PROVE passed'[s] = 0
    BY DEF WaitsStartAtZero
  <2>1. Reading(s)' => Reading(s) BY <1>3 DEF Minute, Reading
  <2>2. overdue'[s] < 0 => overdue[s] < 0
    BY <1>0, <1>3 DEF Minute, TickTyped, TickTypeOK
  <2> QED BY <1>0, <1>3, <2>1, <2>2 DEF Minute, WaitsStartAtZero
<1>4. ASSUME NEW w \in Workers, job' = [job EXCEPT ![w] = job'[w]], job'[w].pc # "read",
             overdue' = overdue, passed' = passed
      PROVE  WaitsStartAtZero'
  BY <1>0, <1>4, ReadingShrinks DEF WaitsStartAtZero
<1>5. ASSUME NEW w \in Workers, ClaimJob(w) PROVE WaitsStartAtZero'
  <2>1. \/ job' = [job EXCEPT ![w] = [job[w] EXCEPT !.pc = "run"]]
        \/ job' = [job EXCEPT ![w] = Off]
    BY <1>5 DEF ClaimJob, Do
  <2>2. job[w] \in [pc : {"read", "run"}, schedule : Schedules, failures : 0..MaxFailures]
    BY <1>0, <1>5, JobTypes DEF ClaimJob
  <2>3. job'[w].pc # "read" /\ job' = [job EXCEPT ![w] = job'[w]]
    BY <1>0, <2>1, <2>2 DEF TickTyped, Off
  <2> QED BY <1>4, <2>3, <1>5 DEF ClaimJob
<1>6. ASSUME NEW w \in Workers, Do(w, Off)
      PROVE  job'[w].pc # "read" /\ job' = [job EXCEPT ![w] = job'[w]]
  BY <1>0, <1>6 DEF TickTyped, Do, Off
<1>7. ASSUME NEW w \in Workers, JobDies(w) PROVE WaitsStartAtZero'
  BY <1>4, <1>6, <1>7 DEF JobDies
<1>8. ASSUME NEW w \in Workers, NEW outcome \in {"failed", "more", "complete"},
             FinishJob(w, outcome)
      PROVE  WaitsStartAtZero'
  <2>1. job'[w].pc # "read" /\ job' = [job EXCEPT ![w] = job'[w]]
    BY <1>6, <1>8 DEF FinishJob
  <2>2. CASE owner[job[w].schedule] # w
    BY <1>4, <1>8, <2>1, <2>2 DEF FinishJob
  <2>3. CASE owner[job[w].schedule] = w
    <3> DEFINE s == job[w].schedule
    <3>1. s \in Schedules BY <1>0, <1>8, FinishLeaves
    <3>2. /\ overdue' = [overdue EXCEPT ![s] = overdue'[s]]
          /\ passed' = [passed EXCEPT ![s] = 0]
      BY <1>0, <1>8, <2>3, <3>1 DEF FinishJob, TickTyped, TickTypeOK
    <3> HIDE DEF s
    <3>3. passed'[s] = 0 BY <1>0, <3>1, <3>2 DEF TickTyped
    <3>4. \A t \in Schedules \ {s} : overdue'[t] = overdue[t] /\ passed'[t] = passed[t]
      BY <1>0, <3>1, <3>2 DEF TickTyped, TickTypeOK
    <3> QED BY <1>0, <2>1, <3>3, <3>4, ReadingShrinks DEF WaitsStartAtZero
  <2> QED BY <2>2, <2>3
<1> QED BY <1>1, <1>2, <1>3, <1>5, <1>7, <1>8 DEF TickNext

\* Whoever has not been passed over yet has only the others ahead of it.
LEMMA FreshTurn ==
  ASSUME TickTyped', NEW s \in Schedules, passed'[s] = 0
  PROVE  (passed[s] * Limit + Cardinality(AheadOf(s)) <= Cardinality(Schedules) - 1 + lapses)'
<1>1. AheadOf(s)' \subseteq Schedules \ {s} BY DEF AheadOf
<1>2. /\ Cardinality(AheadOf(s)') \in Nat /\ Cardinality(Schedules) \in Nat
      /\ Cardinality(AheadOf(s)') <= Cardinality(Schedules) - 1
  BY <1>1, OthersBound
<1>3. lapses' \in Nat /\ Limit \in Nat BY TickAssumption DEF TickTyped, TickTypeOK
<1>4. passed'[s] * Limit = 0 BY <1>3
<1> QED BY <1>2, <1>3, <1>4

\* A step that puts nobody ahead of s keeps its turn.
LEMMA SameTurn ==
  ASSUME TickTyped, TurnsHold, NEW s \in Schedules, passed'[s] = passed[s],
         lapses' = lapses, AheadOf(s)' \subseteq AheadOf(s)
  PROVE  (passed[s] * Limit + Cardinality(AheadOf(s)) <= Cardinality(Schedules) - 1 + lapses)'
<1> DEFINE A == AheadOf(s)
           B == AheadOf(s)'
           p == passed[s] * Limit
           n == Cardinality(Schedules)
<1>1. A \subseteq Schedules \ {s} BY DEF AheadOf
<1>2. IsFiniteSet(A) /\ Cardinality(A) \in Nat /\ n \in Nat BY <1>1, OthersBound
<1>3. B \in SUBSET A OBVIOUS
<1>4. p + Cardinality(A) <= n - 1 + lapses BY DEF TurnsHold
<1>5. p \in Nat /\ lapses \in Nat BY TickAssumption DEF TickTyped, TickTypeOK
<1>6. (passed[s] * Limit)' = p OBVIOUS
<1> HIDE DEF A, B, p, n
<1>7. IsFiniteSet(B) /\ Cardinality(B) <= Cardinality(A) BY <1>2, <1>3, FS_Subset
<1>8. Cardinality(B) \in Nat BY <1>7, FS_CardinalityType
<1>9. p + Cardinality(B) <= n - 1 + lapses BY <1>2, <1>4, <1>5, <1>7, <1>8
<1> QED BY <1>6, <1>9 DEF B, n

LEMMA BeforeSame ==
  ASSUME NEW s \in Schedules, NEW t \in Schedules,
         overdue'[s] = overdue[s], overdue'[t] = overdue[t],
         started'[s] = started[s], started'[t] = started[t]
  PROVE  Before(t, s)' <=> Before(t, s)
BY DEF Before

LEMMA TickTurns ==
  ASSUME TickInv, Tick, NEW s \in Schedules
  PROVE  (passed[s] * Limit + Cardinality(AheadOf(s)) <= Cardinality(Schedules) - 1 + lapses)'
<1>1. TickTyped /\ ReadsAreFresh /\ TurnsHold BY DEF TickInv
<1>2. TickTyped' BY <1>1, TickType
<1>3. passed'[s] = IF s \in Picked THEN 0 ELSE IF s \in Due THEN passed[s] + 1 ELSE passed[s]
  BY DEF Tick
<1>4. UNCHANGED << overdue, started, lease, lapses >> BY DEF Tick
<1>5. \A t : ~Reading(t) BY <1>1 DEF Tick, ReadsAreFresh, Reading
<1> DEFINE P == {t \in Picked : Before(t, s)}
<1>6. AheadOf(s)' \subseteq AheadOf(s) \ P
  <2> SUFFICES ASSUME NEW t \in AheadOf(s)' PROVE t \in AheadOf(s) \ P OBVIOUS
  <2>1. /\ t \in Schedules \ {s} /\ lease[t] = 0 /\ ~Reading(t)' /\ Before(t, s)'
    BY <1>4 DEF AheadOf
  <2>2. Before(t, s) BY <1>4, <2>1, BeforeSame
  <2>3. t \notin Picked BY <1>1, <2>1, ReadsArePicked
  <2> QED BY <1>5, <2>1, <2>2, <2>3 DEF AheadOf
<1>7. CASE s \in Picked BY <1>2, <1>3, <1>7, FreshTurn
<1>8. CASE s \notin Picked /\ s \notin Due
  BY <1>1, <1>3, <1>4, <1>6, <1>8, SameTurn
<1>9. CASE s \in Due /\ s \notin Picked
  <2>1. Cardinality(P) >= Limit BY <1>1, <1>9, LimitAreTaken
  <2>2. P \in SUBSET AheadOf(s)
    <3>1. \A t \in Picked : t \in Schedules /\ lease[t] = 0 BY DEF Picked, Due
    <3> QED BY <1>5, <1>9, <3>1 DEF AheadOf
  <2> DEFINE A == AheadOf(s)
             B == AheadOf(s)'
             p == passed[s] * Limit
             n == Cardinality(Schedules)
  <2>3. A \subseteq Schedules \ {s} BY DEF AheadOf
  <2>4. IsFiniteSet(A) /\ Cardinality(A) \in Nat /\ n \in Nat BY <2>3, OthersBound
  <2>5. p + Cardinality(A) <= n - 1 + lapses BY <1>1 DEF TurnsHold
  <2>6. p \in Nat /\ Limit \in Nat \ {0} /\ lapses \in Nat
    BY <1>1, TickAssumption DEF TickTyped, TickTypeOK
  <2>7. (passed[s] * Limit)' = p + Limit
    <3>1. passed'[s] = passed[s] + 1 BY <1>3, <1>9
    <3>2. passed[s] \in Nat BY <1>1 DEF TickTyped
    <3>3. \A a, b \in Nat : (a + 1) * b = a * b + b OBVIOUS
    <3> QED BY <3>1, <3>2, <3>3, <2>6
  <2>8. B \in SUBSET (A \ P) BY <1>6
  <2>9. P \in SUBSET A BY <2>2
  <2> HIDE DEF A, B, p, n, P
  <2>10. /\ IsFiniteSet(A \ P)
         /\ Cardinality(A \ P) = Cardinality(A) - Cardinality(A \cap P)
    BY <2>4, FS_Difference
  <2>11. A \cap P = P BY <2>9
  <2>12. IsFiniteSet(B) /\ Cardinality(B) <= Cardinality(A \ P) BY <2>8, <2>10, FS_Subset
  <2>13. IsFiniteSet(P) BY <2>4, <2>9, FS_Subset
  <2>14. Cardinality(B) \in Nat /\ Cardinality(P) \in Nat BY <2>12, <2>13, FS_CardinalityType
  <2>15. p + Limit + Cardinality(B) <= n - 1 + lapses
    BY <2>1, <2>4, <2>5, <2>6, <2>10, <2>11, <2>12, <2>14
  <2> QED BY <1>4, <2>7, <2>15 DEF B, n
<1> QED BY <1>7, <1>8, <1>9

LEMMA MinuteTurns ==
  ASSUME TickInv, Minute, NEW s \in Schedules
  PROVE  (passed[s] * Limit + Cardinality(AheadOf(s)) <= Cardinality(Schedules) - 1 + lapses)'
<1>1. TickTyped /\ TurnsHold BY DEF TickInv
<1> DEFINE A == AheadOf(s)
           B == AheadOf(s)'
           L == {t \in Schedules : lease[t] = 1}
           p == passed[s] * Limit
           n == Cardinality(Schedules)
<1>2. B \subseteq A \cup L
  <2> SUFFICES ASSUME NEW t \in AheadOf(s)', lease[t] # 1 PROVE t \in AheadOf(s)
    BY DEF AheadOf
  <2>1. t \in Schedules \ {s} /\ lease'[t] = 0 /\ ~Reading(t)' /\ Before(t, s)'
    BY DEF AheadOf
  <2>2. lease'[t] = Max({0, lease[t] - 1}) BY <2>1 DEF Minute
  <2>3. lease[t] = 0
    <3>1. /\ lease[t] \in Nat
          /\ Max({0, lease[t] - 1}) = IF lease[t] >= 1 THEN lease[t] - 1 ELSE 0
      BY <1>1, <2>1, LeaseLess
    <3> QED BY <2>1, <2>2, <3>1
  <2>4. Reading(t) => Reading(t)' BY DEF Minute, Reading
  <2>5. Before(t, s)
    <3>1. /\ overdue'[s] = overdue[s] + 1 /\ overdue'[t] = overdue[t] + 1
          /\ started'[s] = started[s] + 1 /\ started'[t] = started[t] + 1
      BY <2>1 DEF Minute
    <3>2. /\ overdue[s] \in Int /\ overdue[t] \in Int
          /\ started[s] \in Nat /\ started[t] \in Nat
      BY <1>1, <2>1 DEF TickTyped, TickTypeOK
    <3> QED BY <2>1, <3>1, <3>2 DEF Before
  <2> QED BY <2>1, <2>3, <2>4, <2>5 DEF AheadOf
<1>3. A \subseteq Schedules \ {s} BY DEF AheadOf
<1>4. IsFiniteSet(A) /\ Cardinality(A) \in Nat /\ n \in Nat BY <1>3, OthersBound
<1>5. p + Cardinality(A) <= n - 1 + lapses BY <1>1 DEF TurnsHold
<1>6. p \in Nat /\ lapses \in Nat BY <1>1, TickAssumption DEF TickTyped, TickTypeOK
<1>7. (passed[s] * Limit)' = p /\ lapses' = lapses + Cardinality(L) BY DEF Minute
<1>8. L \in SUBSET Schedules OBVIOUS
<1> HIDE DEF A, B, L, p, n
<1>9. IsFiniteSet(L) /\ Cardinality(L) \in Nat
  BY <1>8, TickAssumption, FS_Subset, FS_CardinalityType
<1>10. /\ IsFiniteSet(A \cup L)
       /\ Cardinality(A \cup L) = Cardinality(A) + Cardinality(L) - Cardinality(A \cap L)
  BY <1>4, <1>9, FS_Union
<1>11. Cardinality(A \cap L) \in Nat BY <1>4, FS_Intersection, FS_CardinalityType
<1>12. Cardinality(A \cup L) \in Nat BY <1>10, FS_CardinalityType
<1>13. IsFiniteSet(B) /\ Cardinality(B) <= Cardinality(A \cup L)
  BY <1>2, <1>10, FS_Subset
<1>14. Cardinality(B) \in Nat BY <1>13, FS_CardinalityType
<1>15. p + Cardinality(B) <= n - 1 + (lapses + Cardinality(L))
  BY <1>4, <1>5, <1>6, <1>9, <1>10, <1>11, <1>12, <1>13, <1>14
<1> QED BY <1>7, <1>15 DEF B, n

LEMMA ClaimTurns ==
  ASSUME TickInv, NEW w \in Workers, ClaimJob(w), NEW s \in Schedules
  PROVE  (passed[s] * Limit + Cardinality(AheadOf(s)) <= Cardinality(Schedules) - 1 + lapses)'
<1>1. TickTyped /\ WaitsStartAtZero /\ TurnsHold BY DEF TickInv
<1>2. TickTyped' BY <1>1, ClaimJobType
<1> DEFINE t == job[w].schedule
<1>3. job[w].pc = "read" /\ UNCHANGED << overdue, lapses, passed >> BY DEF ClaimJob
<1>4. t \in Schedules BY <1>1, <1>3, JobTypes
<1>5. job' = [job EXCEPT ![w] = job'[w]]
  <2>1. \/ job' = [job EXCEPT ![w] = [job[w] EXCEPT !.pc = "run"]]
        \/ job' = [job EXCEPT ![w] = Off]
    BY DEF ClaimJob, Do
  <2> QED BY <1>1, <2>1 DEF TickTyped
<1>6. \A u : u # t /\ Reading(u) => Reading(u)'
  <2> SUFFICES ASSUME NEW u, u # t, Reading(u) PROVE Reading(u)' OBVIOUS
  <2> QED BY <1>1, <1>5, ReadingElsewhere
<1>7. CASE passed[s] = 0 BY <1>2, <1>3, <1>7, FreshTurn
<1>8. CASE passed[s] # 0
  <2>1. overdue[s] >= 0 /\ ~Reading(s)
    BY <1>1, <1>8 DEF WaitsStartAtZero, TickTyped, TickTypeOK
  <2>2. s # t BY <1>3, <2>1 DEF Reading
  <2> HIDE DEF t
  <2>3. /\ \A u \in Schedules \ {t} : lease'[u] = lease[u] /\ started'[u] = started[u]
        /\ lease'[t] = 0 => overdue[t] < 0 /\ lease[t] = 0 /\ started'[t] = started[t]
    <3>1. CASE overdue[t] >= 0 /\ lease[t] = 0
      <4>1. lease' = [lease EXCEPT ![t] = LeaseTime] /\ started' = [started EXCEPT ![t] = 0]
        BY <3>1 DEF ClaimJob, t
      <4> QED BY <1>1, <1>4, <4>1, TickAssumption DEF TickTyped, TickTypeOK
    <3>2. CASE ~(overdue[t] >= 0 /\ lease[t] = 0)
      <4>1. lease' = lease /\ started' = started BY <3>2 DEF ClaimJob, t
      <4> QED BY <1>1, <1>4, <3>2, <4>1 DEF TickTyped, TickTypeOK
    <3> QED BY <3>1, <3>2
  <2>4. ASSUME NEW u \in AheadOf(s)' PROVE u \in AheadOf(s)
    <3>1. u \in Schedules \ {s} /\ lease'[u] = 0 /\ ~Reading(u)' /\ Before(u, s)'
      BY DEF AheadOf
    <3>2. lease[u] = 0 /\ started'[u] = started[u] /\ started'[s] = started[s]
      BY <2>2, <2>3, <3>1
    <3>3. Before(u, s) BY <1>3, <3>1, <3>2, BeforeSame
    <3>4. u # t
      <4>1. u = t => overdue[u] < 0 BY <2>3, <3>1
      <4>2. overdue[u] >= overdue[s]
        BY <1>1, <3>1, <3>3 DEF Before, TickTyped, TickTypeOK
      <4> QED BY <1>1, <2>1, <3>1, <4>1, <4>2 DEF TickTyped, TickTypeOK
    <3> QED BY <1>6, <3>1, <3>2, <3>3, <3>4 DEF AheadOf
  <2> QED BY <1>1, <1>3, <2>4, SameTurn
<1> QED BY <1>7, <1>8

\* A job that ends reads no row: it leaves the others' reading as it is.
LEMMA EndKeepsReading ==
  ASSUME TickTyped, NEW w \in Workers, job[w].pc = "run", Do(w, Off), NEW u, Reading(u)
  PROVE  Reading(u)'
<1>1. job' = [job EXCEPT ![w] = job'[w]] BY DEF Do, TickTyped
<1> QED BY <1>1, ReadingElsewhere

LEMMA FinishTurns ==
  ASSUME TickInv, WaitsStartAtZero', NEW w \in Workers,
         NEW outcome \in {"failed", "more", "complete"}, FinishJob(w, outcome),
         NEW s \in Schedules
  PROVE  (passed[s] * Limit + Cardinality(AheadOf(s)) <= Cardinality(Schedules) - 1 + lapses)'
<1>1. TickTyped /\ TurnsHold BY DEF TickInv
<1>2. TickTyped' BY <1>1, FinishJobType
<1> DEFINE t == job[w].schedule
           d == -NextDelay(outcome, FailuresAfter(w, outcome))
<1>3. t \in Schedules /\ job[w].pc = "run" /\ d \in Int /\ d < 0 BY <1>1, FinishLeaves
<1>4. Do(w, Off) /\ UNCHANGED << started, lapses >> BY DEF FinishJob
<1>5. \A u : Reading(u) => Reading(u)' BY <1>1, <1>3, <1>4, EndKeepsReading
<1>6. CASE owner[t] # w
  <2>1. UNCHANGED << overdue, lease, passed >> BY <1>6 DEF FinishJob
  <2>2. AheadOf(s)' \subseteq AheadOf(s) BY <1>4, <1>5, <2>1, BeforeSame DEF AheadOf
  <2> QED BY <1>1, <1>4, <2>1, <2>2, SameTurn
<1>7. CASE owner[t] = w
  <2>1. /\ overdue' = [overdue EXCEPT ![t] = d]
        /\ lease' = [lease EXCEPT ![t] = 0]
        /\ passed' = [passed EXCEPT ![t] = 0]
    BY <1>7 DEF FinishJob
  <2> HIDE DEF t, d
  <2>2. overdue'[t] = d /\ passed'[t] = 0
    BY <1>1, <1>3, <2>1 DEF TickTyped, TickTypeOK
  <2>3. \A u \in Schedules \ {t} :
            overdue'[u] = overdue[u] /\ lease'[u] = lease[u] /\ passed'[u] = passed[u]
    BY <1>1, <2>1 DEF TickTyped, TickTypeOK
  <2>4. CASE passed'[s] = 0 BY <1>2, <2>4, FreshTurn
  <2>5. CASE passed'[s] # 0
    <3>1. s # t BY <2>2, <2>5
    <3>2. overdue'[s] >= 0 BY <1>2, <2>5 DEF WaitsStartAtZero, TickTyped, TickTypeOK
    <3>3. ASSUME NEW u \in AheadOf(s)' PROVE u \in AheadOf(s)
      <4>1. u \in Schedules \ {s} /\ lease'[u] = 0 /\ ~Reading(u)' /\ Before(u, s)'
        BY DEF AheadOf
      <4>2. overdue'[u] >= overdue'[s] BY <1>2, <4>1 DEF Before, TickTyped, TickTypeOK
      <4>3. u # t
        BY <1>2, <1>3, <2>2, <3>2, <4>1, <4>2 DEF TickTyped, TickTypeOK
      <4>4. Before(u, s) BY <1>4, <2>3, <3>1, <4>1, <4>3, BeforeSame
      <4> QED BY <1>5, <2>3, <4>1, <4>3, <4>4 DEF AheadOf
    <3> QED BY <1>1, <1>4, <2>3, <3>1, <3>3, SameTurn
  <2> QED BY <2>4, <2>5
<1> QED BY <1>6, <1>7

LEMMA TurnsStay ==
  ASSUME TickInv, WaitsStartAtZero', TickNext PROVE TurnsHold'
<1> SUFFICES ASSUME NEW s \in Schedules
             PROVE  (passed[s] * Limit + Cardinality(AheadOf(s))
                         <= Cardinality(Schedules) - 1 + lapses)'
  BY DEF TurnsHold
<1>0. TickTyped /\ TurnsHold BY DEF TickInv
<1>1. CASE Tick BY <1>1, TickTurns
<1>2. CASE LoseTick
  <2>1. UNCHANGED << overdue, started, lease, job, passed, lapses >> BY <1>2 DEF LoseTick
  <2>2. AheadOf(s)' \subseteq AheadOf(s) BY <2>1, BeforeSame DEF AheadOf, Reading
  <2> QED BY <1>0, <2>1, <2>2, SameTurn
<1>3. CASE Minute BY <1>3, MinuteTurns
<1>4. ASSUME NEW w \in Workers, ClaimJob(w)
      PROVE  (passed[s] * Limit + Cardinality(AheadOf(s))
                  <= Cardinality(Schedules) - 1 + lapses)'
  BY <1>4, ClaimTurns
<1>5. ASSUME NEW w \in Workers, JobDies(w)
      PROVE  (passed[s] * Limit + Cardinality(AheadOf(s))
                  <= Cardinality(Schedules) - 1 + lapses)'
  <2>1. job[w].pc = "run" /\ Do(w, Off) /\ UNCHANGED << overdue, started, lease, passed, lapses >>
    BY <1>5 DEF JobDies
  <2>2. \A u : Reading(u) => Reading(u)' BY <1>0, <2>1, EndKeepsReading
  <2>3. AheadOf(s)' \subseteq AheadOf(s) BY <2>1, <2>2, BeforeSame DEF AheadOf
  <2> QED BY <1>0, <2>1, <2>3, SameTurn
<1>6. ASSUME NEW w \in Workers, NEW outcome \in {"failed", "more", "complete"},
             FinishJob(w, outcome)
      PROVE  (passed[s] * Limit + Cardinality(AheadOf(s))
                  <= Cardinality(Schedules) - 1 + lapses)'
  BY <1>6, FinishTurns
<1> QED BY <1>1, <1>2, <1>3, <1>4, <1>5, <1>6 DEF TickNext

LEMMA CountsStay ==
  ASSUME TickInv, TickNext PROVE CountsHold'
<1>0. TickTyped /\ ReadsAreFresh /\ CountsHold BY DEF TickInv
<1> DEFINE Held(w) ==
             LET s == job[w].schedule IN
             /\ job[w].pc = "read" => job[w].failures = failures[s] \/ overdue[s] < 0
             /\ job[w].pc = "run" /\ owner[s] = w => job[w].failures = failures[s]
<1>1. failures = failing /\ \A w \in Workers : Held(w) BY <1>0 DEF CountsHold
<1>2. (failures = failing)' /\ (\A w \in Workers : Held(w)') => CountsHold'
  BY DEF CountsHold
<1>3. CASE Tick
  <2>1. UNCHANGED << overdue, owner, failures, failing >> BY <1>3 DEF Tick
  <2>2. ASSUME NEW w \in Workers PROVE Held(w)'
    <3>1. CASE job'[w] = job[w] BY <1>1, <2>1, <3>1
    <3>2. CASE \E s \in Picked : job'[w] = [pc |-> "read", schedule |-> s,
                                            failures |-> failures[s]]
      BY <2>1, <3>2
    <3> QED BY <1>0, <1>3, <3>1, <3>2, TickReads
  <2> HIDE DEF Held
  <2> QED BY <1>1, <1>2, <2>1, <2>2
<1>4. CASE LoseTick BY <1>1, <1>2, <1>4 DEF LoseTick
<1>5. CASE Minute
  <2>1. UNCHANGED << owner, failures, failing, job >> BY <1>5 DEF Minute
  <2>2. \A w \in Workers : job[w].pc # "read" BY <1>5 DEF Minute
  <2>3. \A w \in Workers : Held(w)' BY <1>1, <2>1, <2>2
  <2> HIDE DEF Held
  <2> QED BY <1>1, <1>2, <2>1, <2>3
<1>6. ASSUME NEW w \in Workers, ClaimJob(w) PROVE CountsHold'
  <2> DEFINE s == job[w].schedule
  <2>1. job[w].pc = "read" /\ UNCHANGED << overdue, failures, failing >>
    BY <1>6 DEF ClaimJob
  <2>2. s \in Schedules /\ job[w] \in [pc : {"read", "run"}, schedule : Schedules,
                                       failures : 0..MaxFailures]
    BY <1>0, <2>1, JobTypes
  <2>3. CASE overdue[s] >= 0 /\ lease[s] = 0
    <3>1. /\ owner' = [owner EXCEPT ![s] = w]
          /\ job' = [job EXCEPT ![w] = [job[w] EXCEPT !.pc = "run"]]
      BY <1>6, <2>3 DEF ClaimJob, Do
    <3>2. ~(overdue[s] < 0) BY <1>0, <2>2, <2>3 DEF TickTyped, TickTypeOK
    <3>3. job[w].failures = failures[s] BY <1>1, <2>1, <3>2
    <3>4. Held(w)'
      <4>1. /\ job'[w].pc = "run" /\ job'[w].schedule = s
            /\ job'[w].failures = job[w].failures
        BY <1>0, <2>2, <3>1 DEF TickTyped
      <4> QED BY <2>1, <3>3, <4>1
    <3>5. ASSUME NEW v \in Workers \ {w} PROVE Held(v)'
      <4>1. job'[v] = job[v] BY <1>0, <3>1 DEF TickTyped
      <4>2. CASE job[v].pc = "off" BY <4>1, <4>2
      <4>3. CASE job[v].pc # "off"
        <5>1. job[v].schedule \in Schedules BY <1>0, <4>3, JobTypes
        <5>2. owner'[job[v].schedule] = v => owner[job[v].schedule] = v
          BY <1>0, <2>2, <3>1, <5>1 DEF TickTyped, TickTypeOK
        <5> QED BY <1>1, <2>1, <4>1, <5>2
      <4> QED BY <4>2, <4>3
    <3>6. (failures = failing)' BY <1>1, <2>1
    <3> HIDE DEF Held
    <3> QED BY <1>2, <3>4, <3>5, <3>6
  <2>4. CASE ~(overdue[s] >= 0 /\ lease[s] = 0)
    <3>1. owner' = owner /\ job' = [job EXCEPT ![w] = Off]
      BY <1>6, <2>4 DEF ClaimJob, Do
    <3>2. ASSUME NEW v \in Workers PROVE Held(v)'
      <4>1. CASE v = w BY <1>0, <3>1, <4>1 DEF TickTyped, Off
      <4>2. CASE v # w
        <5>1. job'[v] = job[v] BY <1>0, <3>1, <4>2 DEF TickTyped
        <5> QED BY <1>1, <2>1, <3>1, <5>1
      <4> QED BY <4>1, <4>2
    <3>3. (failures = failing)' BY <1>1, <2>1
    <3> HIDE DEF Held
    <3> QED BY <1>2, <3>2, <3>3
  <2> QED BY <2>3, <2>4
<1>7. ASSUME NEW w \in Workers, JobDies(w) PROVE CountsHold'
  <2>1. UNCHANGED << overdue, owner, failures, failing >> /\ job' = [job EXCEPT ![w] = Off]
    BY <1>7 DEF JobDies, Do
  <2>2. ASSUME NEW v \in Workers PROVE Held(v)'
    <3>1. CASE v = w BY <1>0, <2>1, <3>1 DEF TickTyped, Off
    <3>2. CASE v # w
      <4>1. job'[v] = job[v] BY <1>0, <2>1, <3>2 DEF TickTyped
      <4> QED BY <1>1, <2>1, <4>1
    <3> QED BY <3>1, <3>2
  <2>3. (failures = failing)' BY <1>1, <2>1
  <2> HIDE DEF Held
  <2> QED BY <1>2, <2>2, <2>3
<1>8. ASSUME NEW w \in Workers, NEW outcome \in {"failed", "more", "complete"},
             FinishJob(w, outcome)
      PROVE  CountsHold'
  <2> DEFINE s == job[w].schedule
             n == FailuresAfter(w, outcome)
             d == -NextDelay(outcome, n)
  <2>1. s \in Schedules /\ job[w].pc = "run" /\ n \in 0..MaxFailures /\ d \in Int /\ d < 0
    BY <1>0, <1>8, FinishLeaves
  <2>2. job' = [job EXCEPT ![w] = Off] BY <1>8 DEF FinishJob, Do
  <2>3. job'[w] = Off /\ \A v \in Workers \ {w} : job'[v] = job[v]
    BY <1>0, <2>2 DEF TickTyped
  <2>4. Held(w)' BY <2>3 DEF Off
  <2>5. CASE owner[s] # w
    <3>1. UNCHANGED << failures, overdue, owner, failing >> BY <1>8, <2>5 DEF FinishJob
    <3>2. \A v \in Workers \ {w} : Held(v)' BY <1>1, <2>3, <3>1
    <3>3. (failures = failing)' BY <1>1, <3>1
    <3> HIDE DEF Held
    <3> QED BY <1>2, <2>4, <3>2, <3>3
  <2>6. CASE owner[s] = w
    <3>1. /\ failures' = [failures EXCEPT ![s] = n]
          /\ overdue' = [overdue EXCEPT ![s] = d]
          /\ owner' = [owner EXCEPT ![s] = NoWorker]
          /\ failing' = [failing EXCEPT ![s] = IF outcome = "failed" THEN @ + 1 ELSE 0]
      BY <1>8, <2>6 DEF FinishJob
    <3>2. job[w].failures = failures[s] BY <1>1, <2>1, <2>6
    <3>3. n = IF outcome = "failed" THEN failing[s] + 1 ELSE 0
      BY <1>1, <3>2 DEF FailuresAfter
    <3> HIDE DEF s, n, d
    <3>4. (failures = failing)'
      <4>1. failures' = [failing EXCEPT ![s] = n] BY <1>1, <3>1
      <4>2. failing' = [failing EXCEPT ![s] = n] BY <3>1, <3>3
      <4> QED BY <4>1, <4>2
    <3>5. /\ overdue'[s] < 0 /\ owner'[s] = NoWorker
          /\ \A u \in Schedules \ {s} : /\ overdue'[u] = overdue[u]
                                        /\ owner'[u] = owner[u]
                                        /\ failures'[u] = failures[u]
      BY <1>0, <2>1, <3>1 DEF TickTyped, TickTypeOK
    <3>6. ASSUME NEW v \in Workers \ {w} PROVE Held(v)'
      <4>1. CASE job[v].pc = "off" BY <2>3, <4>1
      <4>2. CASE job[v].pc # "off"
        <5>1. job[v].schedule \in Schedules BY <1>0, <4>2, JobTypes
        <5>2. CASE job[v].schedule = s
          BY <2>3, <3>5, <3>6, <5>2, TickAssumption
        <5>3. CASE job[v].schedule # s BY <1>1, <2>3, <3>5, <3>6, <5>1, <5>3
        <5> QED BY <5>2, <5>3
      <4> QED BY <4>1, <4>2
    <3> HIDE DEF Held
    <3> QED BY <1>2, <2>4, <3>4, <3>6
  <2> QED BY <2>5, <2>6
<1> QED BY <1>3, <1>4, <1>5, <1>6, <1>7, <1>8 DEF TickNext

LEMMA TypesStay ==
  ASSUME TickTyped, TickNext PROVE TickTyped'
BY TickType, LoseTickType, MinuteType, ClaimJobType, JobDiesType, FinishJobType DEF TickNext

\* Nothing happens: everything stays.
LEMMA TickStutter ==
  ASSUME TickInv, UNCHANGED tickVars PROVE TickInv'
<1>1. UNCHANGED << overdue, started, lease, owner, failures, job, ticked, lapses, lost, passed,
                   failing >>
  BY DEF tickVars
<1>2. TickTyped' BY <1>1 DEF TickInv, TickTyped, TickTypeOK
<1>3. ReadsAreFresh' /\ CountsHold' BY <1>1 DEF TickInv, ReadsAreFresh, CountsHold
<1>4. \A s : Reading(s)' <=> Reading(s) BY <1>1 DEF Reading
<1>5. WaitsStartAtZero' BY <1>1, <1>4 DEF TickInv, WaitsStartAtZero
<1>6. ASSUME NEW s \in Schedules PROVE AheadOf(s)' \subseteq AheadOf(s)
  BY <1>1, <1>4, BeforeSame DEF AheadOf
<1>7. TurnsHold'
  <2> SUFFICES ASSUME NEW s \in Schedules
               PROVE  (passed[s] * Limit + Cardinality(AheadOf(s))
                           <= Cardinality(Schedules) - 1 + lapses)'
    BY DEF TurnsHold
  <2> QED BY <1>1, <1>6, SameTurn DEF TickInv
<1> QED BY <1>2, <1>3, <1>5, <1>7 DEF TickInv

LEMMA TickKeeps ==
  ASSUME TickInv, [TickNext]_tickVars PROVE TickInv'
<1>1. CASE TickNext
  <2>1. TickTyped' /\ ReadsAreFresh' /\ WaitsStartAtZero' /\ CountsHold'
    BY <1>1, TypesStay, ReadsStayFresh, WaitsStayZero, CountsStay DEF TickInv
  <2>2. TurnsHold' BY <1>1, <2>1, TurnsStay
  <2> QED BY <2>1, <2>2 DEF TickInv
<1>2. CASE UNCHANGED tickVars BY <1>2, TickStutter
<1> QED BY <1>1, <1>2

LEMMA TickInvSays == ASSUME TickInv PROVE TurnsAreFair
<1>1. TickTypeOK /\ FailuresCounted BY DEF TickInv, TickTyped, CountsHold, FailuresCounted
<1>2. ASSUME NEW s \in Schedules
      PROVE  passed[s] * Limit <= Cardinality(Schedules) - 1 + lapses
  <2>1. Cardinality(AheadOf(s)) \in Nat /\ Cardinality(Schedules) \in Nat
    BY AheadIsOthers
  <2>2. passed[s] * Limit + Cardinality(AheadOf(s)) <= Cardinality(Schedules) - 1 + lapses
    BY DEF TickInv, TurnsHold
  <2>3. passed[s] * Limit \in Nat /\ lapses \in Nat
    BY TickAssumption DEF TickInv, TickTyped, TickTypeOK
  <2> QED BY <2>1, <2>2, <2>3
<1> QED BY <1>1, <1>2 DEF TurnsAreFair, OldestDueFirst

\* Due connections take their turns: for any number of connections, workers and
\* leases that run out, a connection that is due sees a tick start others in its
\* place no more often than there are others to start, and once more for each lease
\* that ran out; and the failures its retries are spaced by are those since its last
\* success (sync-scheduler.ts: runDuePosBatch, runDueSchedule).
THEOREM DueTakeTurns == TickSpec => []TurnsAreFair
<1>1. TickInit => TickInv BY TickInitHolds
<1>2. TickInv /\ [TickNext]_tickVars => TickInv' BY TickKeeps
<1>3. TickInv => TurnsAreFair BY TickInvSays
<1> QED BY <1>1, <1>2, <1>3, PTL DEF TickSpec

=============================================================================
