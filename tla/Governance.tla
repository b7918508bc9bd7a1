----------------------------- MODULE Governance -----------------------------
(***************************************************************************)
(* Organization governance: the service class Governance                   *)
(* (src/src/reconcile/auth/governance.py) on the tables of migration 0006, *)
(* for one organization, with the two ways an account comes to exist       *)
(* (register_invited, and register of accounts.py).  A step is one SQL     *)
(* statement, or a group of reads made under a lock no writer can pass;    *)
(* the transactions of different requests interleave at READ COMMITTED.    *)
(*                                                                         *)
(* Abstracted: an address and the account it belongs to are one user; the  *)
(* token of an invitation is the invitation's number, which a client knows *)
(* once the mail has arrived; passwords, display names, session expiry     *)
(* (module Accounts) and the organization's own status, which no operation *)
(* changes, are left out.  One clock is shared by all servers; Runs has    *)
(* clocks that disagree.                                                   *)
(***************************************************************************)
EXTENDS Policy, Integers, Sequences, FiniteSets

CONSTANTS
    Users,      \* people, each with one email address
    Names,      \* organization display names
    FirstName,  \* the name the organization was registered with
    Seed,       \* organization_memberships rows at the start, all at version 1
    Requests,   \* HTTP requests, each handled once by one server thread
    Loads,      \* the combinations of bodies the requests may carry
    MaxTime,    \* the clock stops here
    InvitationSeconds   \* life of an invitation

Unchanged == "UNCHANGED"    \* a field the body leaves out
AdminKind == {"RENAME", "UPDATE_MEMBER", "INVITE", "REVOKE"}
TokenKind == {"ACCEPT", "REGISTER"}
Kind == AdminKind \cup TokenKind \cup {"SIGN_UP"}

(* actor: whose session sends the request; user: the member or address it  *)
(* is about; seen: expected_version; invitation: the invitation's id, or   *)
(* the one whose token the client holds.  An invitation names its role.    *)
Body == [kind: Kind, actor: Users, user: Users, name: Names,
         role: Roles \cup {Unchanged}, status: {"ACTIVE", "ARCHIVED", Unchanged},
         seen: Nat, invitation: Nat]
Request == {m \in Body : m.kind = "INVITE" => m.role \in Roles}

ASSUME NameAssumption == FirstName \in Names
ASSUME SeedAssumption ==
    /\ Seed \in [Users -> {NoMembership} \cup {NewMembership(role) : role \in Roles}]
    /\ \E u \in Users : Seed[u] = NewMembership("ORG_ADMIN")
ASSUME TimeAssumption == MaxTime \in Nat /\ InvitationSeconds \in Nat \ {0}
ASSUME LoadAssumption == Loads \subseteq [Requests -> Request]

VARIABLES
    clock,          \* the time every server reads
    organization,   \* the organizations row: name, version
    members,        \* the organization_memberships rows
    accounts,       \* users with a users row
    invitations,    \* the organization_invitations rows, in order of insertion
    mailed,         \* invitations whose mail reached its address
    events,         \* committed governance_events, in order of commit
    request,        \* the body each request carries
    phase,          \* the next statement of each request's transaction
    now,            \* the time each request read at its start
    loaded,         \* the target membership an update has in its ORM session
    locks,          \* the row locks each transaction holds
    reply           \* the answer each finished request received

tables == <<organization, members, accounts, invitations, events>>
vars == <<clock, tables, mailed, request, phase, now, loaded, locks, reply>>

Organization == [name: Names, version: Nat]
Invitation == [user: Users, role: Roles, status: {"PENDING", "ACCEPTED", "REVOKED"},
               createdAt: Nat, expiresAt: Nat, version: Nat, by: Requests]
EventType == {"ORGANIZATION_RENAMED", "INVITATION_CREATED", "INVITATION_REVOKED",
              "INVITATION_ACCEPTED", "MEMBER_ROLE_CHANGED", "MEMBER_DEACTIVATED",
              "MEMBER_REACTIVATED"}
(* user, invitation: the resource and the address in the details; name,    *)
(* role: the new value in the details.                                     *)
Event == [type: EventType, actor: Users, user: Users, invitation: Nat,
          name: Names, role: Roles, at: Nat, by: Requests]
Phase == {"new", "authenticate", "organization", "recheck", "invitation", "checks",
          "commit", "deliver", "done"}
Reply == {"none", "ok", "rejected", "error", "lost"}

(* Row locks: 0 is the organizations row, n the n-th invitation.           *)
OrganizationLock == 0

TypeOK ==
    /\ clock \in 0..MaxTime
    /\ organization \in Organization
    /\ members \in [Users -> Membership]
    /\ accounts \subseteq Users
    /\ invitations \in Seq(Invitation)
    /\ mailed \subseteq DOMAIN invitations
    /\ events \in Seq(Event)
    /\ request \in [Requests -> Request]
    /\ phase \in [Requests -> Phase]
    /\ now \in [Requests -> Nat]
    /\ loaded \in [Requests -> Membership]
    /\ locks \in [Requests -> SUBSET Nat]
    /\ reply \in [Requests -> Reply]

Member(u) == members[u].status # "ABSENT"
ActiveAdmin(u) == members[u].status = "ACTIVE" /\ members[u].role = "ORG_ADMIN"
Pending(n) == invitations[n].status = "PENDING"

-----------------------------------------------------------------------------
(* Transactions: a lock is kept until the commit or the rollback.          *)

(* Broken variant: the organization row is read without FOR UPDATE.        *)
Free_OrganizationUnlocked(x, r) ==
    x # OrganizationLock => \A q \in Requests \ {r} : x \notin locks[q]

Free(x, r) == \A q \in Requests \ {r} : x \notin locks[q]

Goto(r, p) == phase' = [phase EXCEPT ![r] = p] /\ UNCHANGED <<locks, reply>>

GotoHolding(r, p, x) ==
    /\ Free(x, r)
    /\ phase' = [phase EXCEPT ![r] = p]
    /\ locks' = [locks EXCEPT ![r] = @ \cup {x}]
    /\ UNCHANGED reply

(* Broken variant: an exception leaves the transaction open.               *)
Finish_KeepsLocks(r, answer) ==
    /\ phase' = [phase EXCEPT ![r] = "done"]
    /\ reply' = [reply EXCEPT ![r] = answer]
    /\ UNCHANGED locks

Finish(r, answer) ==
    /\ phase' = [phase EXCEPT ![r] = "done"]
    /\ reply' = [reply EXCEPT ![r] = answer]
    /\ locks' = [locks EXCEPT ![r] = {}]

Refuse(r) == Finish(r, "rejected") /\ UNCHANGED tables

-----------------------------------------------------------------------------
Init ==
    /\ clock = 0
    /\ organization = [name |-> FirstName, version |-> 1]
    /\ members = Seed
    /\ accounts \in {A \in SUBSET Users : \A u \in Users : Member(u) => u \in A}
    /\ invitations = <<>>
    /\ mailed = {}
    /\ events = <<>>
    /\ request \in Loads
    /\ phase = [r \in Requests |-> "new"]
    /\ now = [r \in Requests |-> 0]
    /\ loaded = [r \in Requests |-> NoMembership]
    /\ locks = [r \in Requests |-> {}]
    /\ reply = [r \in Requests |-> "none"]

(* A client sends a version or an id it has read, a token that was mailed  *)
(* to it, and only a user with an account has a session.                   *)
VersionSeen(m) ==
    CASE m.kind = "RENAME" -> m.seen <= organization.version
      [] m.kind = "UPDATE_MEMBER" -> m.seen <= members[m.user].version
      [] m.kind = "REVOKE" -> /\ m.invitation \in DOMAIN invitations
                              /\ m.seen <= invitations[m.invitation].version
      [] OTHER -> TRUE

CanSend(m) ==
    /\ m.kind \in AdminKind \cup {"ACCEPT"} => m.actor \in accounts
    /\ m.kind \in TokenKind => m.invitation \in mailed
    /\ VersionSeen(m)

(* The handler reads the clock first.  The requests with a session then    *)
(* authenticate; a token names its organization, which never changes.      *)
Arrive(r) ==
    LET m == request[r] IN
    /\ phase[r] = "new" /\ CanSend(m)
    /\ now' = [now EXCEPT ![r] = clock]
    /\ Goto(r, CASE m.kind \in AdminKind -> "authenticate"
                 [] m.kind \in TokenKind -> "organization"
                 [] m.kind = "SIGN_UP" -> "checks")
    /\ UNCHANGED <<clock, tables, mailed, request, loaded>>

PermissionFor(kind) ==
    CASE kind = "RENAME" -> "MANAGE_ORG_SETTINGS"
      [] kind = "UPDATE_MEMBER" -> "MANAGE_ORG_MEMBERS"
      [] kind \in {"INVITE", "REVOKE"} -> "MANAGE_ORG_INVITATIONS"

Entitled(r) == Permits(members[request[r].actor], PermissionFor(request[r].kind))

(* Sessions.authenticate and Principal.require, in a transaction of their  *)
(* own that takes no lock.                                                 *)
Authenticate(r) ==
    /\ phase[r] = "authenticate"
    /\ IF Entitled(r) THEN Goto(r, "organization") /\ UNCHANGED tables ELSE Refuse(r)
    /\ UNCHANGED <<clock, mailed, request, now, loaded>>

(* SELECT ... FROM organizations ... FOR UPDATE                            *)
LockOrganization(r) ==
    /\ phase[r] = "organization"
    /\ GotoHolding(r, IF request[r].kind \in TokenKind THEN "invitation" ELSE "recheck",
                   OrganizationLock)
    /\ UNCHANGED <<clock, tables, mailed, request, now, loaded>>

(* Broken variant: what the session was entitled to when it authenticated  *)
(* is trusted.                                                             *)
Recheck_Trusting(r) ==
    /\ phase[r] = "recheck"
    /\ Goto(r, IF request[r].kind = "REVOKE" THEN "invitation" ELSE "checks")
    /\ UNCHANGED <<clock, tables, mailed, request, now, loaded>>

(* The membership is read again behind the organization's lock.            *)
Recheck(r) ==
    /\ phase[r] = "recheck"
    /\ IF Entitled(r)
       THEN /\ Goto(r, IF request[r].kind = "REVOKE" THEN "invitation" ELSE "checks")
            /\ UNCHANGED tables
       ELSE Refuse(r)
    /\ UNCHANGED <<clock, mailed, request, now, loaded>>

(* What the locked invitation must be: PENDING, at the version a revoker   *)
(* saw, not expired at the time the accepting request arrived.             *)
InvitationFits(r) ==
    LET m == request[r] IN
    /\ Pending(m.invitation)
    /\ m.kind = "REVOKE" => invitations[m.invitation].version = m.seen
    /\ m.kind \in TokenKind => invitations[m.invitation].expiresAt > now[r]

(* SELECT ... FROM organization_invitations ... FOR UPDATE                 *)
LockInvitation(r) ==
    LET n == request[r].invitation IN
    /\ phase[r] = "invitation"
    /\ Free(n, r)
    /\ IF ~InvitationFits(r) THEN Refuse(r)
       ELSE /\ GotoHolding(r, IF request[r].kind = "REVOKE" THEN "commit" ELSE "checks", n)
            /\ UNCHANGED tables
    /\ UNCHANGED <<clock, mailed, request, now, loaded>>

-----------------------------------------------------------------------------
(* The service's checks, each under the locks taken so far.                *)

Given(field, old) == IF field = Unchanged THEN old ELSE field
UpdatedMember(m, row) ==
    [status |-> Given(m.status, row.status), role |-> Given(m.role, row.role),
     version |-> row.version]

LeavingAdmin(m, row) ==
    /\ row.role = "ORG_ADMIN" /\ row.status = "ACTIVE"
    /\ UpdatedMember(m, row).role # "ORG_ADMIN" \/ UpdatedMember(m, row).status # "ACTIVE"

(* Broken variant: a rename does not compare expected_version.             *)
ServiceAllows_RenameAnyVersion(r) ==
    LET m == request[r] IN
    CASE m.kind = "RENAME" -> TRUE
      [] m.kind = "UPDATE_MEMBER" ->
            /\ Member(m.user) /\ members[m.user].version = m.seen
            /\ LeavingAdmin(m, members[m.user]) => \E u \in Users \ {m.user} : ActiveAdmin(u)
      [] m.kind = "INVITE" ->
            /\ ~Member(m.user)
            /\ \A n \in DOMAIN invitations : invitations[n].user = m.user => ~Pending(n)
      [] m.kind = "ACCEPT" ->
            invitations[m.invitation].user = m.actor /\ ~Member(m.actor)
      [] m.kind = "REGISTER" -> invitations[m.invitation].user \notin accounts

ServiceAllows(r) ==
    LET m == request[r] IN
    CASE m.kind = "RENAME" -> organization.version = m.seen
      [] m.kind = "UPDATE_MEMBER" ->
            /\ Member(m.user) /\ members[m.user].version = m.seen
            /\ LeavingAdmin(m, members[m.user]) => \E u \in Users \ {m.user} : ActiveAdmin(u)
      [] m.kind = "INVITE" ->
            /\ ~Member(m.user)
            /\ \A n \in DOMAIN invitations : invitations[n].user = m.user => ~Pending(n)
      [] m.kind = "ACCEPT" ->
            invitations[m.invitation].user = m.actor /\ ~Member(m.actor)
      [] m.kind = "REGISTER" -> invitations[m.invitation].user \notin accounts

(* register answers a known address as if it had registered it.            *)
Check(r) ==
    /\ phase[r] = "checks"
    /\ \/ /\ request[r].kind = "SIGN_UP"
          /\ \/ request[r].user \notin accounts /\ Goto(r, "commit")
             \/ request[r].user \in accounts /\ Finish(r, "ok")
          /\ UNCHANGED <<tables, loaded>>
       \/ /\ request[r].kind # "SIGN_UP" /\ ServiceAllows(r)
          /\ Goto(r, "commit")
          /\ loaded' = [loaded EXCEPT ![r] =
                IF request[r].kind = "UPDATE_MEMBER" THEN members[request[r].user] ELSE @]
          /\ UNCHANGED tables
       \/ /\ request[r].kind # "SIGN_UP" /\ ~ServiceAllows(r)
          /\ Refuse(r) /\ UNCHANGED loaded
    /\ UNCHANGED <<clock, mailed, request, now>>

-----------------------------------------------------------------------------
(* The writes, their governance events, and COMMIT.                        *)

EventOf(r, type, actor, user) ==
    [type |-> type, actor |-> actor, user |-> user, invitation |-> 0,
     name |-> organization.name, role |-> "MEMBER", at |-> now[r], by |-> r]

(* A rename to the present name is accepted and changes nothing.           *)
Rename(r) ==
    LET m == request[r]
        event == [EventOf(r, "ORGANIZATION_RENAMED", m.actor, m.actor)
                    EXCEPT !.name = m.name]
    IN  /\ m.kind = "RENAME"
        /\ IF m.name = organization.name THEN UNCHANGED <<organization, events>>
           ELSE /\ organization' = [name |-> m.name, version |-> organization.version + 1]
                /\ events' = Append(events, event)
        /\ UNCHANGED <<members, accounts, invitations>>
        /\ Finish(r, "ok")

MemberEvents(r, new) ==
    LET old == loaded[r]
        event(type) == [EventOf(r, type, request[r].actor, request[r].user)
                            EXCEPT !.role = new.role]
        role == IF new.role = old.role THEN <<>> ELSE <<event("MEMBER_ROLE_CHANGED")>>
        status == IF new.status = old.status THEN <<>>
                  ELSE IF new.status = "ACTIVE" THEN <<event("MEMBER_REACTIVATED")>>
                  ELSE <<event("MEMBER_DEACTIVATED")>>
    IN  role \o status

(* The ORM writes the values it computed from the row it loaded.           *)
UpdateMember(r) ==
    LET m == request[r]
        new == UpdatedMember(m, loaded[r])
    IN  /\ m.kind = "UPDATE_MEMBER"
        /\ IF new = loaded[r] THEN UNCHANGED <<members, events>>
           ELSE /\ members' = [members EXCEPT ![m.user] =
                                    [new EXCEPT !.version = loaded[r].version + 1]]
                /\ events' = events \o MemberEvents(r, new)
        /\ UNCHANGED <<organization, accounts, invitations>>
        /\ Finish(r, "ok")

InvitationEvent(r, type, actor, n, user, role) ==
    [EventOf(r, type, actor, user) EXCEPT !.invitation = n, !.role = role]

(* The partial unique index allows one PENDING row for an address.         *)
Invite(r) ==
    LET m == request[r]
        n == Len(invitations) + 1
        row == [user |-> m.user, role |-> m.role, status |-> "PENDING", version |-> 1,
                createdAt |-> now[r], expiresAt |-> now[r] + InvitationSeconds, by |-> r]
        clash == \E k \in DOMAIN invitations : invitations[k].user = m.user /\ Pending(k)
    IN  /\ m.kind = "INVITE"
        /\ IF clash THEN Finish(r, "error") /\ UNCHANGED <<invitations, events>>
           ELSE /\ invitations' = Append(invitations, row)
                /\ events' = Append(events, InvitationEvent(r, "INVITATION_CREATED",
                                                m.actor, n, m.user, m.role))
                /\ phase' = [phase EXCEPT ![r] = "deliver"]
                /\ locks' = [locks EXCEPT ![r] = {}]
                /\ UNCHANGED reply
        /\ UNCHANGED <<organization, members, accounts>>

(* Broken variant: the accepted invitation stays PENDING.                  *)
Settled_NotAccepted(row, status) ==
    [row EXCEPT !.status = IF status = "ACCEPTED" THEN @ ELSE status, !.version = @ + 1]

Settled(row, status) == [row EXCEPT !.status = status, !.version = @ + 1]

Revoke(r) ==
    LET m == request[r]
        row == invitations[m.invitation]
    IN  /\ m.kind = "REVOKE"
        /\ invitations' = [invitations EXCEPT ![m.invitation] = Settled(@, "REVOKED")]
        /\ events' = Append(events, InvitationEvent(r, "INVITATION_REVOKED", m.actor,
                                        m.invitation, row.user, row.role))
        /\ UNCHANGED <<organization, members, accounts>>
        /\ Finish(r, "ok")

(* accept_invitation and register_invited: the membership, for the second  *)
(* one the account too, and _accept.  A second users or membership row is  *)
(* refused by a unique constraint, which nobody translates.                *)
Join(r) ==
    LET m == request[r]
        row == invitations[m.invitation]
        u == IF m.kind = "ACCEPT" THEN m.actor ELSE row.user
        clash == Member(u) \/ (m.kind = "REGISTER" /\ u \in accounts)
    IN  /\ m.kind \in TokenKind
        /\ IF clash THEN Finish(r, "error") /\ UNCHANGED tables
           ELSE /\ members' = [members EXCEPT ![u] = NewMembership(row.role)]
                /\ accounts' = accounts \cup {u}
                /\ invitations' = [invitations EXCEPT ![m.invitation] =
                                        Settled(@, "ACCEPTED")]
                /\ events' = Append(events, InvitationEvent(r, "INVITATION_ACCEPTED", u,
                                                m.invitation, row.user, row.role))
                /\ UNCHANGED organization
                /\ Finish(r, "ok")

(* register: the account and an organization of its own, which is another  *)
(* one.  The unique address is answered as a success.                      *)
SignUp(r) ==
    /\ request[r].kind = "SIGN_UP"
    /\ accounts' = accounts \cup {request[r].user}
    /\ UNCHANGED <<organization, members, invitations, events>>
    /\ Finish(r, "ok")

Commit(r) ==
    /\ phase[r] = "commit"
    /\ Rename(r) \/ UpdateMember(r) \/ Invite(r) \/ Revoke(r) \/ Join(r) \/ SignUp(r)
    /\ UNCHANGED <<clock, mailed, request, now, loaded>>

(* The mail goes out after the commit; a failure is only logged.           *)
Deliver(r) ==
    /\ phase[r] = "deliver"
    /\ \/ mailed' = mailed \cup {n \in DOMAIN invitations : invitations[n].by = r}
       \/ UNCHANGED mailed
    /\ Finish(r, "ok")
    /\ UNCHANGED <<clock, tables, request, now, loaded>>

(* The connection or the worker is lost.                                   *)
Rollback(r) ==
    /\ phase[r] \notin {"new", "done"}
    /\ Finish(r, "lost")
    /\ UNCHANGED <<clock, tables, mailed, request, now, loaded>>

Tick ==
    /\ clock < MaxTime
    /\ clock' = clock + 1
    /\ UNCHANGED <<tables, mailed, request, phase, now, loaded, locks, reply>>

Step(r) ==
    \/ Authenticate(r) \/ LockOrganization(r) \/ Recheck(r) \/ LockInvitation(r)
    \/ Check(r) \/ Commit(r) \/ Deliver(r)

Next == Tick \/ \E r \in Requests : Arrive(r) \/ Step(r) \/ Rollback(r)

Spec == Init /\ [][Next]_vars

-----------------------------------------------------------------------------
(* Properties.                                                             *)

(* The organization always has an active administrator, although two of    *)
(* them may demote or archive each other, or themselves, at the same time. *)
AnAdminRemains == \E u \in Users : ActiveAdmin(u)

(* A pending invitation is for an outsider, and it is the only one for its *)
(* address: no invitation can be accepted twice, or over a membership an   *)
(* administrator has archived.                                             *)
InvitationsAreForOutsiders ==
    \A n \in DOMAIN invitations : Pending(n) =>
        /\ ~Member(invitations[n].user)
        /\ \A k \in DOMAIN invitations :
            Pending(k) /\ invitations[k].user = invitations[n].user => k = n

(* What the events say happened to a member, an invitation, the name.      *)
EventsAbout(types, user) ==
    {n \in DOMAIN events : events[n].type \in types /\ events[n].user = user}
Latest(S) == CHOOSE n \in S : \A k \in S : k <= n
Joined(u) == EventsAbout({"INVITATION_ACCEPTED"}, u)
RoleEvents(u) == Joined(u) \cup EventsAbout({"MEMBER_ROLE_CHANGED"}, u)
StatusEvents(u) ==
    Joined(u) \cup EventsAbout({"MEMBER_DEACTIVATED", "MEMBER_REACTIVATED"}, u)
MemberFromEvents(u) ==
    [status |-> IF StatusEvents(u) = {} THEN Seed[u].status
                ELSE IF events[Latest(StatusEvents(u))].type = "MEMBER_DEACTIVATED"
                THEN "ARCHIVED" ELSE "ACTIVE",
     role |-> IF RoleEvents(u) = {} THEN Seed[u].role
              ELSE events[Latest(RoleEvents(u))].role,
     version |-> Seed[u].version
                 + Cardinality({events[n].by : n \in RoleEvents(u) \cup StatusEvents(u)})]
InvitationEvents(k) == {n \in DOMAIN events : events[n].invitation = k}
InvitationFromEvents(k) ==
    CASE events[Latest(InvitationEvents(k))].type = "INVITATION_CREATED" -> "PENDING"
      [] events[Latest(InvitationEvents(k))].type = "INVITATION_ACCEPTED" -> "ACCEPTED"
      [] events[Latest(InvitationEvents(k))].type = "INVITATION_REVOKED" -> "REVOKED"
Renames == {n \in DOMAIN events : events[n].type = "ORGANIZATION_RENAMED"}

(* The audit trail is complete: read from the start, in the order of the   *)
(* commits, it yields every membership with its role, status and version,  *)
(* every invitation's status and version, and the organization's name.     *)
(* The timeline an administrator reads is ordered by the times the events  *)
(* carry, which the requests read before they waited for the lock; for one *)
(* member, one invitation or the name that order is the order of commits.  *)
AboutTheSame(a, b) ==
    \/ {a, b} \subseteq Renames
    \/ events[a].invitation # 0 /\ events[a].invitation = events[b].invitation
    \/ \E u \in Users : {a, b} \subseteq RoleEvents(u) \cup StatusEvents(u)
AuditExplainsState ==
    /\ \A u \in Users : members[u] = MemberFromEvents(u)
    /\ \A k \in DOMAIN invitations :
        /\ invitations[k].status = InvitationFromEvents(k)
        /\ invitations[k].version = Cardinality(InvitationEvents(k))
    /\ organization.version = 1 + Cardinality(Renames)
    /\ organization.name =
        IF Renames = {} THEN FirstName ELSE events[Latest(Renames)].name
    /\ \A a, b \in DOMAIN events :
        a < b /\ AboutTheSame(a, b) => events[a].at <= events[b].at

(* The checks under the locks are enough: the only request that fails in a *)
(* constraint is an invited registration whose address signed up, or       *)
(* registered, while it was running.                                       *)
OnlyAddressRacesFail ==
    \A r \in Requests : reply[r] = "error" =>
        /\ request[r].kind = "REGISTER"
        /\ invitations[request[r].invitation].user \in accounts

(* The next statement of r needs a row that q has locked.                  *)
WaitsFor(r, q) ==
    /\ q # r
    /\ \/ phase[r] = "organization" /\ OrganizationLock \in locks[q]
       \/ phase[r] = "invitation" /\ request[r].invitation \in locks[q]

(* Transactions never wait for each other in a circle, nor for a lock that *)
(* an ended one left behind: the organization is locked before its         *)
(* invitations.  In every group of requests one can go on as soon as       *)
(* others than the group have ended.                                       *)
NoCircularWait ==
    LET running == {r \in Requests : phase[r] \notin {"new", "done"}} IN
    \A S \in SUBSET running : S # {} =>
        \E r \in S : \A q \in Requests : WaitsFor(r, q) => q \in running \ S
=============================================================================
