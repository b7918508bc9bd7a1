-------------------------- MODULE GovernanceProofs --------------------------
(***************************************************************************)
(* What holds of every organization, for any people, names, requests and   *)
(* invitation life.                                                        *)
(*                                                                         *)
(* The argument: whatever an administrator's or an invitee's transaction   *)
(* has found behind the organization's lock is still so when it commits    *)
(* (Ready), because everybody who writes a membership or an invitation     *)
(* holds that lock (Guarded, OneHolder).                                   *)
(*                                                                         *)
(* All other locks are taken behind the organization's (LocksBehindIt),    *)
(* so nobody waits in a circle.                                            *)
(***************************************************************************)
EXTENDS GovernanceRefinement, FiniteSetTheorems, NaturalsInduction, WellFoundedInduction, TLAPS

(* Which requests reach which statement, and when they are answered.       *)
Fits(r) ==
    LET kind == request[r].kind IN
    /\ phase[r] \in {"authenticate", "recheck"} => kind \in AdminKind
    /\ phase[r] = "organization" => kind \in AdminKind \cup TokenKind
    /\ phase[r] = "invitation" => kind \in TokenKind \cup {"REVOKE"}
    /\ phase[r] = "checks" => kind # "REVOKE"
    /\ reply[r] # "none" => phase[r] = "done"
    /\ kind \in TokenKind \cup {"REVOKE"} /\ phase[r] # "new" =>
        request[r].invitation \in DOMAIN invitations
PhaseFits == \A r \in Requests : Fits(r)

(* The requests that have the organization's lock.                         *)
Guarded(r) ==
    \/ phase[r] \in {"recheck", "invitation"}
    \/ phase[r] \in {"checks", "commit"} /\ request[r].kind # "SIGN_UP"
LocksHeld == \A r \in Requests : OrganizationLock \in locks[r] <=> Guarded(r)
OneHolder == \A q, r \in Requests : Guarded(q) /\ Guarded(r) => q = r

(* What a request relies on in front of its commit.                        *)
Relies(r) ==
    LET m == request[r] IN
    /\ m.kind = "UPDATE_MEMBER" =>
        /\ loaded[r] = members[m.user] /\ Member(m.user)
        /\ LeavingAdmin(m, loaded[r]) => \E u \in Users \ {m.user} : ActiveAdmin(u)
    /\ m.kind = "INVITE" =>
        /\ ~Member(m.user)
        /\ \A n \in DOMAIN invitations : invitations[n].user = m.user => ~Pending(n)
    /\ m.kind \in TokenKind \cup {"REVOKE"} => Pending(m.invitation)
    /\ m.kind = "ACCEPT" => invitations[m.invitation].user = m.actor
Ready ==
    \A r \in Requests :
        /\ phase[r] = "checks" /\ request[r].kind \in TokenKind => Pending(request[r].invitation)
        /\ phase[r] = "commit" => Relies(r)

IInv ==
    /\ TypeOK /\ PhaseFits /\ LocksHeld /\ OneHolder /\ Ready
    /\ AnAdminRemains /\ InvitationsAreForOutsiders /\ OnlyAddressRacesFail

-----------------------------------------------------------------------------
(* The first state, and steps that write no table.                         *)

LEMMA InitInv == Init => IInv
  <1> SUFFICES ASSUME Init PROVE IInv
    OBVIOUS
  <1>1. Seed \in [Users -> Membership]
    BY SeedAssumption DEF Membership, NoMembership, NewMembership, Roles
  <1>2. TypeOK
    <2>1. /\ clock \in 0..MaxTime /\ organization \in Organization /\ members \in [Users -> Membership]
          /\ accounts \subseteq Users /\ invitations \in Seq(Invitation) /\ mailed \subseteq DOMAIN invitations
          /\ events \in Seq(Event) /\ request \in [Requests -> Request]
      BY <1>1, TimeAssumption, NameAssumption, LoadAssumption DEF Init, Organization
    <2>2. NoMembership \in Membership
      BY DEF NoMembership, Membership, Roles
    <2> QED BY <2>1, <2>2 DEF Init, TypeOK, Phase, Reply
  <1>3. PhaseFits /\ LocksHeld /\ OneHolder /\ Ready
    BY DEF Init, PhaseFits, Fits, LocksHeld, OneHolder, Guarded, Ready
  <1>4. AnAdminRemains
    BY SeedAssumption DEF Init, AnAdminRemains, ActiveAdmin, NewMembership
  <1>5. InvitationsAreForOutsiders /\ OnlyAddressRacesFail
    BY DEF Init, InvitationsAreForOutsiders, OnlyAddressRacesFail
  <1> QED BY <1>2, <1>3, <1>4, <1>5 DEF IInv

LEMMA TablesKept ==
  ASSUME UNCHANGED tables
  PROVE  /\ UNCHANGED <<organization, members, accounts, invitations, events>>
         /\ AnAdminRemains => AnAdminRemains'
         /\ InvitationsAreForOutsiders => InvitationsAreForOutsiders'
  BY DEF tables, AnAdminRemains, ActiveAdmin, InvitationsAreForOutsiders, Pending, Member

(* What a request relies on is in its own body and copies, the memberships *)
(* and the invitations.                                                    *)
LEMMA RelianceKept ==
  ASSUME NEW r, request' = request, members' = members, invitations' = invitations,
         loaded'[r] = loaded[r]
  PROVE  Relies(r)' <=> Relies(r)
  BY DEF Relies, Member, LeavingAdmin, UpdatedMember, Given, ActiveAdmin, Pending

LEMMA ArriveInv == ASSUME IInv, NEW r \in Requests, Arrive(r) PROVE IInv'
  <1> USE DEF IInv
  <1>1. UNCHANGED <<organization, members, accounts, invitations, events>>
        /\ AnAdminRemains' /\ InvitationsAreForOutsiders'
    BY TablesKept DEF Arrive
  <1>2. request[r] \in Request /\ request[r].kind \in Kind /\ clock \in Nat
    BY TimeAssumption DEF TypeOK, Request, Body
  <1>3. TypeOK'
    BY <1>1, <1>2 DEF Arrive, TypeOK, Goto, Phase, Kind
  <1>4. PhaseFits'
    BY <1>1, <1>2 DEF Arrive, PhaseFits, Fits, TypeOK, Goto, Kind, AdminKind, TokenKind, CanSend,
                      VersionSeen
  <1>5. LocksHeld' /\ OneHolder'
    BY <1>2 DEF Arrive, LocksHeld, OneHolder, Guarded, TypeOK, Goto, Kind
  <1>6. Ready'
    BY <1>1, <1>2, RelianceKept DEF Arrive, Ready, TypeOK, Goto, Kind, Pending, AdminKind, TokenKind
  <1>7. OnlyAddressRacesFail'
    BY <1>1 DEF Arrive, OnlyAddressRacesFail, TypeOK, Goto
  <1> QED BY <1>1, <1>3, <1>4, <1>5, <1>6, <1>7

LEMMA AuthenticateInv == ASSUME IInv, NEW r \in Requests, Authenticate(r) PROVE IInv'
  <1> USE DEF IInv
  <1>1. UNCHANGED <<organization, members, accounts, invitations, events>>
        /\ AnAdminRemains' /\ InvitationsAreForOutsiders'
    BY TablesKept DEF Authenticate, Refuse
  <1>2. request[r] \in Request /\ request[r].kind \in Kind /\ request[r].user \in Users
    BY DEF TypeOK, Request, Body
  <1>3. TypeOK'
    BY <1>1, <1>2 DEF Authenticate, TypeOK, Goto, Refuse, Finish, Phase, Reply, OrganizationLock, Request, Body
  <1>4. PhaseFits'
    BY <1>1, <1>2 DEF Authenticate, PhaseFits, Fits, TypeOK, Goto, Refuse, Finish, AdminKind, TokenKind
  <1>5. LocksHeld'
    BY <1>2 DEF Authenticate, LocksHeld, PhaseFits, Fits, Guarded, TypeOK, Goto, Refuse, Finish, OrganizationLock, AdminKind, TokenKind
  <1>6. OneHolder'
    <2>1. phase'[r] \in {"organization", "done"} /\ \A q \in Requests \ {r} : phase'[q] = phase[q]
      BY DEF Authenticate, TypeOK, Goto, Refuse, Finish
    <2>2. request' = request
      BY DEF Authenticate
    <2> QED BY <2>1, <2>2 DEF OneHolder, Guarded
  <1>7. Ready'
    BY <1>1, <1>2, RelianceKept DEF Authenticate, Ready, PhaseFits, Fits, TypeOK, Goto, Refuse, Finish, Pending, AdminKind, TokenKind
  <1>8. OnlyAddressRacesFail'
    BY <1>1 DEF Authenticate, OnlyAddressRacesFail, TypeOK, Goto, Refuse, Finish
  <1> QED BY <1>1, <1>3, <1>4, <1>5, <1>6, <1>7, <1>8


LEMMA LockOrganizationInv == ASSUME IInv, NEW r \in Requests, LockOrganization(r) PROVE IInv'
  <1> USE DEF IInv
  <1>1. UNCHANGED <<organization, members, accounts, invitations, events>>
        /\ AnAdminRemains' /\ InvitationsAreForOutsiders'
    BY TablesKept DEF LockOrganization, Refuse
  <1>2. request[r] \in Request /\ request[r].kind \in Kind /\ request[r].user \in Users
    BY DEF TypeOK, Request, Body
  <1>3. TypeOK'
    BY <1>1, <1>2 DEF LockOrganization, TypeOK, GotoHolding, Free, Phase, Reply, OrganizationLock, Request, Body
  <1>4. PhaseFits'
    BY <1>1, <1>2 DEF LockOrganization, PhaseFits, Fits, TypeOK, GotoHolding, Free, AdminKind, TokenKind
  <1>5. LocksHeld'
    BY <1>2 DEF LockOrganization, LocksHeld, PhaseFits, Fits, Guarded, TypeOK, GotoHolding, Free, OrganizationLock, AdminKind, TokenKind
  <1>6. OneHolder'
    BY <1>2 DEF LockOrganization, LocksHeld, PhaseFits, Fits, OneHolder, Guarded, TypeOK, GotoHolding, Free, AdminKind, TokenKind
  <1>7. Ready'
    BY <1>1, <1>2, RelianceKept DEF LockOrganization, Ready, PhaseFits, Fits, TypeOK, GotoHolding, Free, Pending, AdminKind, TokenKind
  <1>8. OnlyAddressRacesFail'
    BY <1>1 DEF LockOrganization, OnlyAddressRacesFail, TypeOK, GotoHolding, Free
  <1> QED BY <1>1, <1>3, <1>4, <1>5, <1>6, <1>7, <1>8


(* A transaction that ends without a write, whatever it was about.         *)
LEMMA FinishInv ==
  ASSUME IInv, NEW r \in Requests, NEW answer \in Reply \ {"error"}, Finish(r, answer),
         phase[r] # "new", UNCHANGED <<clock, tables, mailed, request, now, loaded>>
  PROVE  IInv'
  <1> USE DEF IInv
  <1>1. UNCHANGED <<organization, members, accounts, invitations, events>>
        /\ AnAdminRemains' /\ InvitationsAreForOutsiders'
    BY TablesKept
  <1>2. TypeOK'
    BY <1>1 DEF TypeOK, Finish, Phase
  <1>3. PhaseFits' /\ LocksHeld' /\ OneHolder'
    BY <1>1 DEF PhaseFits, Fits, LocksHeld, OneHolder, Guarded, TypeOK, Finish
  <1>4. Ready' /\ OnlyAddressRacesFail'
    BY <1>1, RelianceKept DEF Ready, Pending, OnlyAddressRacesFail, TypeOK, Finish
  <1> QED BY <1>1, <1>2, <1>3, <1>4

LEMMA RecheckInv == ASSUME IInv, NEW r \in Requests, Recheck(r) PROVE IInv'
  <1> USE DEF IInv
  <1> DEFINE next == IF request[r].kind = "REVOKE" THEN "invitation" ELSE "checks"
  <1>1. phase[r] = "recheck" /\ UNCHANGED <<clock, mailed, request, now, loaded>>
    BY DEF Recheck
  <1>2. CASE Finish(r, "rejected") /\ UNCHANGED tables
    BY <1>1, <1>2, FinishInv DEF Reply
  <1>3. CASE Goto(r, next) /\ UNCHANGED tables
    <2>1. UNCHANGED <<organization, members, accounts, invitations, events>>
          /\ AnAdminRemains' /\ InvitationsAreForOutsiders'
      BY <1>3, TablesKept
    <2>2. next \in {"invitation", "checks"} /\ request[r].kind \in AdminKind
      BY <1>1 DEF PhaseFits, Fits
    <2>3. phase' = [phase EXCEPT ![r] = next] /\ UNCHANGED <<locks, reply>>
      BY <1>3 DEF Goto
    <2>4. TypeOK'
      BY <1>1, <2>1, <2>2, <2>3 DEF TypeOK, Phase
    <2>5. PhaseFits'
      BY <1>1, <2>1, <2>2, <2>3 DEF PhaseFits, Fits, TypeOK, AdminKind, TokenKind
    <2>6. LocksHeld' /\ OneHolder'
      <3>1. \A q \in Requests : Guarded(q)' <=> Guarded(q)
        BY <1>1, <2>2, <2>3 DEF Guarded, TypeOK, AdminKind
      <3> QED BY <2>3, <3>1 DEF LocksHeld, OneHolder
    <2>7. Ready'
      <3>1. \A q \in Requests \ {r} : phase'[q] = phase[q]
        BY <2>3 DEF TypeOK
      <3>2. phase'[r] \in {"invitation", "checks"} /\ request[r].kind \notin TokenKind
        BY <2>2, <2>3 DEF TypeOK, AdminKind, TokenKind
      <3> QED BY <1>1, <2>1, <3>1, <3>2, RelianceKept DEF Ready, Pending
    <2>8. OnlyAddressRacesFail'
      BY <1>1, <2>1, <2>3 DEF OnlyAddressRacesFail
    <2> QED BY <2>1, <2>4, <2>5, <2>6, <2>7, <2>8
  <1> QED BY <1>2, <1>3 DEF Recheck, Refuse

LEMMA LockInvitationInv == ASSUME IInv, NEW r \in Requests, LockInvitation(r) PROVE IInv'
  <1> USE DEF IInv
  <1> DEFINE n == request[r].invitation
             next == IF request[r].kind = "REVOKE" THEN "commit" ELSE "checks"
  <1>1. UNCHANGED <<organization, members, accounts, invitations, events>>
        /\ AnAdminRemains' /\ InvitationsAreForOutsiders'
    BY TablesKept DEF LockInvitation, Refuse
  <1>2. /\ phase[r] = "invitation" /\ n \in Nat /\ n \in DOMAIN invitations /\ n # OrganizationLock
        /\ request[r].kind \in TokenKind \cup {"REVOKE"} /\ Guarded(r)
        /\ UNCHANGED <<clock, mailed, request, now, loaded>>
    BY DEF LockInvitation, TypeOK, Request, PhaseFits, Fits, Guarded, OrganizationLock
  <1>3. CASE Finish(r, "rejected")
    BY <1>1, <1>2, <1>3, FinishInv DEF Reply, tables
  <1>4. CASE InvitationFits(r) /\ GotoHolding(r, next, n)
    <2>1. TypeOK'
      BY <1>1, <1>2, <1>4 DEF TypeOK, GotoHolding, Phase, Reply
    <2>2. PhaseFits'
      BY <1>1, <1>2, <1>4 DEF PhaseFits, Fits, TypeOK, GotoHolding, TokenKind, AdminKind
    <2>3. LocksHeld'
      BY <1>2, <1>4 DEF LocksHeld, Guarded, TypeOK, GotoHolding, TokenKind
    <2>4. OneHolder'
      BY <1>2, <1>4 DEF OneHolder, Guarded, TypeOK, GotoHolding
    <2>5. Ready'
      <3>1. Pending(n)
        BY <1>4 DEF InvitationFits
      <3>2. request[r].kind = "REVOKE" => Relies(r)
        BY <3>1 DEF Relies, TokenKind
      <3> QED BY <1>1, <1>2, <1>4, <3>1, <3>2, RelianceKept
              DEF Ready, Pending, TypeOK, GotoHolding, TokenKind
    <2>6. OnlyAddressRacesFail'
      BY <1>1, <1>2, <1>4 DEF OnlyAddressRacesFail, TypeOK, GotoHolding
    <2> QED BY <1>1, <2>1, <2>2, <2>3, <2>4, <2>5, <2>6
  <1> QED BY <1>3, <1>4 DEF LockInvitation, Refuse

LEMMA CheckInv == ASSUME IInv, NEW r \in Requests, Check(r) PROVE IInv'
  <1> USE DEF IInv
  <1> DEFINE m == request[r]
  <1>1. UNCHANGED <<organization, members, accounts, invitations, events>>
        /\ AnAdminRemains' /\ InvitationsAreForOutsiders'
    BY TablesKept DEF Check, Refuse
  <1>2. /\ phase[r] = "checks" /\ m \in Request /\ m.user \in Users
        /\ UNCHANGED <<clock, mailed, request, now>>
    BY DEF Check, TypeOK, Request, Body
  <1>3. CASE UNCHANGED loaded /\ \E answer \in {"ok", "rejected"} : Finish(r, answer)
    BY <1>1, <1>2, <1>3, FinishInv DEF Reply, tables
  <1>4. CASE /\ Goto(r, "commit")
             /\ loaded' = [loaded EXCEPT ![r] =
                    IF m.kind = "UPDATE_MEMBER" THEN members[m.user] ELSE @]
             /\ m.kind # "SIGN_UP" => ServiceAllows(r)
    <2>1. TypeOK'
      <3>1. loaded' \in [Requests -> Membership]
        BY <1>2, <1>4 DEF TypeOK
      <3> QED BY <1>1, <1>2, <1>4, <3>1 DEF TypeOK, Goto, Phase
    <2>2. PhaseFits'
      BY <1>1, <1>2, <1>4 DEF PhaseFits, Fits, TypeOK, Goto
    <2>3. LocksHeld' /\ OneHolder'
      BY <1>2, <1>4 DEF LocksHeld, OneHolder, Guarded, TypeOK, Goto
    <2>4. Ready'
      <3>1. m.kind \notin {"REVOKE"} /\ (m.kind \in TokenKind => Pending(m.invitation))
        BY <1>2 DEF PhaseFits, Fits, Ready
      <3>2. loaded'[r] = IF m.kind = "UPDATE_MEMBER" THEN members[m.user] ELSE loaded[r]
        BY <1>4 DEF TypeOK
      <3>3. Relies(r)'
        <4>1. CASE m.kind = "UPDATE_MEMBER"
          BY <1>1, <1>2, <1>4, <3>2, <4>1
             DEF Relies, ServiceAllows, Member, LeavingAdmin, UpdatedMember, Given, ActiveAdmin, TokenKind
        <4>2. CASE m.kind = "INVITE"
          BY <1>1, <1>2, <1>4, <4>2 DEF Relies, ServiceAllows, Member, Pending, TokenKind
        <4>3. CASE m.kind \notin {"UPDATE_MEMBER", "INVITE"}
          BY <1>1, <1>2, <1>4, <3>1, <4>3 DEF Relies, ServiceAllows, Pending, TokenKind
        <4> QED BY <4>1, <4>2, <4>3
      <3>4. \A q \in Requests \ {r} : phase'[q] = phase[q] /\ loaded'[q] = loaded[q]
        BY <1>4 DEF Goto, TypeOK
      <3>5. phase'[r] = "commit"
        BY <1>4 DEF Goto, TypeOK
      <3> QED BY <1>1, <1>2, <3>3, <3>4, <3>5, RelianceKept DEF Ready, Pending
    <2>5. OnlyAddressRacesFail'
      BY <1>1, <1>2, <1>4 DEF OnlyAddressRacesFail, Goto
    <2> QED BY <1>1, <2>1, <2>2, <2>3, <2>4, <2>5
  <1>5. m.kind = "SIGN_UP" /\ UNCHANGED loaded =>
            loaded' = [loaded EXCEPT ![r] = IF m.kind = "UPDATE_MEMBER" THEN members[m.user] ELSE @]
    BY DEF TypeOK
  <1> QED BY <1>3, <1>4, <1>5 DEF Check, Refuse

LEMMA DeliverInv == ASSUME IInv, NEW r \in Requests, Deliver(r) PROVE IInv'
  <1> USE DEF IInv
  <1>1. UNCHANGED <<organization, members, accounts, invitations, events>>
        /\ AnAdminRemains' /\ InvitationsAreForOutsiders'
    BY TablesKept DEF Deliver, Refuse
  <1>2. request[r] \in Request /\ request[r].kind \in Kind /\ request[r].user \in Users
    BY DEF TypeOK, Request, Body
  <1>3. TypeOK'
    BY <1>1, <1>2 DEF Deliver, TypeOK, Finish, Phase, Reply, OrganizationLock, Request, Body
  <1>4. PhaseFits'
    BY <1>1, <1>2 DEF Deliver, PhaseFits, Fits, TypeOK, Finish, AdminKind, TokenKind
  <1>5. LocksHeld'
    BY <1>2 DEF Deliver, LocksHeld, PhaseFits, Fits, Guarded, TypeOK, Finish, OrganizationLock, AdminKind, TokenKind
  <1>6. OneHolder'
    BY <1>2 DEF Deliver, LocksHeld, PhaseFits, Fits, OneHolder, Guarded, TypeOK, Finish, AdminKind, TokenKind
  <1>7. Ready'
    BY <1>1, <1>2, RelianceKept DEF Deliver, Ready, PhaseFits, Fits, TypeOK, Finish, Pending, AdminKind, TokenKind
  <1>8. OnlyAddressRacesFail'
    BY <1>1 DEF Deliver, OnlyAddressRacesFail, TypeOK, Finish
  <1> QED BY <1>1, <1>3, <1>4, <1>5, <1>6, <1>7, <1>8


LEMMA RollbackInv == ASSUME IInv, NEW r \in Requests, Rollback(r) PROVE IInv'
  BY FinishInv DEF Rollback, Reply

LEMMA TickInv == ASSUME IInv, Tick PROVE IInv'
  <1> USE DEF IInv
  <1>1. UNCHANGED <<organization, members, accounts, invitations, events>>
        /\ AnAdminRemains' /\ InvitationsAreForOutsiders'
    BY TablesKept DEF Tick
  <1>2. TypeOK'
    BY <1>1, TimeAssumption DEF Tick, TypeOK
  <1>3. PhaseFits' /\ LocksHeld' /\ OneHolder' /\ OnlyAddressRacesFail'
    BY <1>1 DEF Tick, PhaseFits, Fits, LocksHeld, OneHolder, Guarded, OnlyAddressRacesFail
  <1>4. Ready'
    BY <1>1, RelianceKept DEF Tick, Ready, Pending
  <1> QED BY <1>1, <1>2, <1>3, <1>4

-----------------------------------------------------------------------------
(* The commits.  All but SignUp hold the organization's lock.              *)

(* What the table part of a commit leaves to show.                         *)
TablesFine ==
    /\ organization \in Organization /\ members \in [Users -> Membership]
    /\ accounts \subseteq Users /\ invitations \in Seq(Invitation) /\ events \in Seq(Event)
    /\ AnAdminRemains /\ InvitationsAreForOutsiders

(* A holder's commit leaves nobody who relies on what it has written.      *)
LEMMA HolderEnds ==
  ASSUME IInv, NEW r \in Requests, phase[r] = "commit", request[r].kind # "SIGN_UP",
         UNCHANGED <<clock, mailed, request, now, loaded>>,
         phase' \in [Requests -> Phase], reply' \in [Requests -> Reply],
         \A q \in Requests \ {r} : phase'[q] = phase[q] /\ reply'[q] = reply[q],
         phase'[r] = "done" \/ (phase'[r] = "deliver" /\ reply'[r] = reply[r]),
         locks' = [locks EXCEPT ![r] = {}],
         reply'[r] = "error" =>
            request[r].kind = "REGISTER" /\ invitations'[request[r].invitation].user \in accounts',
         accounts \subseteq accounts',
         DOMAIN invitations \subseteq DOMAIN invitations',
         \A n \in DOMAIN invitations : invitations'[n].user = invitations[n].user,
         TablesFine'
  PROVE  IInv'
  <1> USE DEF IInv
  <1>1. Guarded(r) /\ \A q \in Requests \ {r} : ~Guarded(q)
    BY DEF Guarded, OneHolder
  <1>2. TypeOK'
    BY DEF TypeOK, TablesFine
  <1>3. PhaseFits'
    BY DEF PhaseFits, Fits
  <1>4. LocksHeld' /\ OneHolder'
    <2>1. \A q \in Requests \ {r} : ~Guarded(q)'
      BY <1>1 DEF Guarded
    <2>2. ~Guarded(r)'
      BY DEF Guarded
    <2>3. \A q \in Requests : OrganizationLock \in locks'[q] => OrganizationLock \in locks[q] /\ q # r
      BY DEF TypeOK
    <2> QED BY <1>1, <2>1, <2>2, <2>3 DEF LocksHeld, OneHolder
  <1>5. Ready'
    <2> SUFFICES ASSUME NEW q \in Requests, phase'[q] \in {"checks", "commit"}
                 PROVE  request[q].kind = "SIGN_UP"
      BY DEF Ready, Relies, TokenKind
    <2> QED BY <1>1 DEF Guarded
  <1>6. OnlyAddressRacesFail'
    <2> SUFFICES ASSUME NEW q \in Requests, q # r, reply'[q] = "error"
                 PROVE  /\ request[q].kind = "REGISTER"
                        /\ invitations'[request[q].invitation].user \in accounts'
      BY DEF OnlyAddressRacesFail
    <2>1. request[q].kind = "REGISTER" /\ invitations[request[q].invitation].user \in accounts
      BY DEF OnlyAddressRacesFail
    <2>2. request[q].invitation \in DOMAIN invitations
      BY <2>1 DEF PhaseFits, Fits, TokenKind
    <2> QED BY <2>1, <2>2
  <1> QED BY <1>2, <1>3, <1>4, <1>5, <1>6 DEF TablesFine

LEMMA IInvTypes == ASSUME IInv PROVE TypeOK
  BY DEF IInv

(* How a request under way ends.                                           *)
LEMMA FinishEnds ==
  ASSUME TypeOK, NEW r \in Requests, NEW answer \in Reply, Finish(r, answer)
  PROVE  /\ phase' \in [Requests -> Phase] /\ reply' \in [Requests -> Reply]
         /\ \A q \in Requests \ {r} : phase'[q] = phase[q] /\ reply'[q] = reply[q]
         /\ phase'[r] = "done" /\ reply'[r] = answer
         /\ locks' = [locks EXCEPT ![r] = {}]
  BY DEF Finish, TypeOK, Phase

(* A commit answered with success, which settles no address.               *)
LEMMA HolderFinishes ==
  ASSUME IInv, NEW r \in Requests, phase[r] = "commit", request[r].kind # "SIGN_UP",
         UNCHANGED <<clock, mailed, request, now, loaded>>, Finish(r, "ok"),
         accounts \subseteq accounts',
         DOMAIN invitations \subseteq DOMAIN invitations',
         \A n \in DOMAIN invitations : invitations'[n].user = invitations[n].user,
         TablesFine'
  PROVE  IInv'
  <1>1. /\ phase' \in [Requests -> Phase] /\ reply' \in [Requests -> Reply]
        /\ \A q \in Requests \ {r} : phase'[q] = phase[q] /\ reply'[q] = reply[q]
        /\ phase'[r] = "done" /\ reply'[r] = "ok"
        /\ locks' = [locks EXCEPT ![r] = {}]
    BY IInvTypes, FinishEnds DEF Reply
  <1>2. /\ phase'[r] = "done" \/ (phase'[r] = "deliver" /\ reply'[r] = reply[r])
        /\ reply'[r] = "error" =>
            request[r].kind = "REGISTER" /\ invitations'[request[r].invitation].user \in accounts'
    BY <1>1
  <1> QED BY <1>1, <1>2, HolderEnds

(* The governance events the commits write.                                *)
EventRow(r, type, actor, user, n, name, role) ==
    [type |-> type, actor |-> actor, user |-> user, invitation |-> n,
     name |-> name, role |-> role, at |-> now[r], by |-> r]

LEMMA EventRows ==
  ASSUME TypeOK, NEW r \in Requests, NEW type \in EventType, NEW actor \in Users,
         NEW user \in Users, NEW n \in Nat, NEW name \in Names, NEW role \in Roles
  PROVE  /\ [EventOf(r, type, actor, user) EXCEPT !.name = name]
                = EventRow(r, type, actor, user, 0, name, "MEMBER")
         /\ [EventOf(r, type, actor, user) EXCEPT !.role = role]
                = EventRow(r, type, actor, user, 0, organization.name, role)
         /\ InvitationEvent(r, type, actor, n, user, role)
                = EventRow(r, type, actor, user, n, organization.name, role)
  <1> DEFINE base == EventRow(r, type, actor, user, 0, organization.name, "MEMBER")
  <1>1. EventOf(r, type, actor, user) = base
    BY DEF EventOf, EventRow
  <1>2. [base EXCEPT !.name = name] = EventRow(r, type, actor, user, 0, name, "MEMBER")
    BY DEF EventRow
  <1>3. [base EXCEPT !.role = role] = EventRow(r, type, actor, user, 0, organization.name, role)
    BY DEF EventRow
  <1>4. InvitationEvent(r, type, actor, n, user, role)
            = EventRow(r, type, actor, user, n, organization.name, role)
    <2>1. InvitationEvent(r, type, actor, n, user, role)
            = [base EXCEPT !.invitation = n, !.role = role]
      BY <1>1 DEF InvitationEvent
    <2> QED BY <2>1 DEF EventRow
  <1> QED BY <1>1, <1>2, <1>3, <1>4

LEMMA EventRowType ==
  ASSUME TypeOK, NEW r \in Requests, NEW type \in EventType, NEW actor \in Users,
         NEW user \in Users, NEW n \in Nat, NEW name \in Names, NEW role \in Roles
  PROVE  EventRow(r, type, actor, user, n, name, role) \in Event
  BY DEF EventRow, Event, TypeOK

LEMMA InvitationEventRow ==
  ASSUME TypeOK, NEW r \in Requests, NEW type \in EventType, NEW actor \in Users,
         NEW user \in Users, NEW n \in Nat, NEW role \in Roles
  PROVE  LET row == EventRow(r, type, actor, user, n, organization.name, role)
         IN  InvitationEvent(r, type, actor, n, user, role) = row /\ row \in Event
  BY EventRows, EventRowType DEF TypeOK, Organization

LEMMA EventsAreEvents ==
  ASSUME TypeOK, NEW r \in Requests, NEW type \in EventType, NEW actor \in Users,
         NEW user \in Users, NEW n \in Nat, NEW name \in Names, NEW role \in Roles
  PROVE  /\ [EventOf(r, type, actor, user) EXCEPT !.name = name] \in Event
         /\ [EventOf(r, type, actor, user) EXCEPT !.role = role] \in Event
         /\ InvitationEvent(r, type, actor, n, user, role) \in Event
  <1>1. organization.name \in Names /\ 0 \in Nat /\ "MEMBER" \in Roles
    BY DEF TypeOK, Organization, Roles
  <1> QED BY <1>1, EventRows, EventRowType

LEMMA InvitationType ==
  ASSUME TypeOK, NEW n \in DOMAIN invitations
  PROVE  /\ invitations[n] \in Invitation
         /\ invitations[n].user \in Users /\ invitations[n].role \in Roles
         /\ invitations[n].version \in Nat
  <1>1. invitations \in Seq(Invitation)
    BY DEF TypeOK
  <1>2. invitations[n] \in Invitation
    BY <1>1
  <1> QED BY <1>2 DEF Invitation

LEMMA RenameInv ==
  ASSUME IInv, NEW r \in Requests, phase[r] = "commit", Rename(r),
         UNCHANGED <<clock, mailed, request, now, loaded>>
  PROVE  IInv'
  <1> USE DEF IInv
  <1> DEFINE m == request[r]
             event == [EventOf(r, "ORGANIZATION_RENAMED", m.actor, m.actor) EXCEPT !.name = m.name]
  <1>1. m \in Request /\ m.kind = "RENAME" /\ m.actor \in Users /\ m.name \in Names
    BY DEF Rename, TypeOK, Request, Body
  <1>2. event \in Event
    BY <1>1, EventsAreEvents DEF EventType, Roles
  <1>3. UNCHANGED <<members, accounts, invitations>> /\ Finish(r, "ok")
    BY DEF Rename
  <1>4. \/ UNCHANGED <<organization, events>>
        \/ /\ organization' = [name |-> m.name, version |-> organization.version + 1]
           /\ events' = Append(events, event)
    BY DEF Rename
  <1> HIDE DEF event
  <1>5. organization' \in Organization
    <2>1. organization.version + 1 \in Nat
      BY DEF TypeOK, Organization
    <2> QED BY <1>1, <1>4, <2>1 DEF TypeOK, Organization
  <1>6. events' \in Seq(Event)
    <2>1. events \in Seq(Event)
      BY DEF TypeOK
    <2> QED BY <1>2, <1>4, <2>1
  <1>7. TablesFine'
    BY <1>3, <1>5, <1>6 DEF TablesFine, TypeOK, AnAdminRemains, ActiveAdmin,
                            InvitationsAreForOutsiders, Pending, Member
  <1> HIDE DEF IInv
  <1> QED BY <1>1, <1>3, <1>7, HolderFinishes

LEMMA UpdateMemberInv ==
  ASSUME IInv, NEW r \in Requests, phase[r] = "commit", UpdateMember(r),
         UNCHANGED <<clock, mailed, request, now, loaded>>
  PROVE  IInv'
  <1> USE DEF IInv
  <1> DEFINE m == request[r]
             old == loaded[r]
             new == UpdatedMember(m, old)
             row == [new EXCEPT !.version = old.version + 1]
  <1>1. /\ m \in Request /\ m.kind = "UPDATE_MEMBER" /\ m.user \in Users /\ m.actor \in Users
        /\ m.role \in Roles \cup {Unchanged} /\ m.status \in {"ACTIVE", "ARCHIVED", Unchanged}
    BY DEF UpdateMember, TypeOK, Request, Body
  <1>2. /\ old = members[m.user] /\ old \in Membership /\ old.status # "ABSENT"
        /\ LeavingAdmin(m, old) => \E u \in Users \ {m.user} : ActiveAdmin(u)
    BY <1>1 DEF Ready, Relies, TypeOK, Member
  <1>3. new = [status |-> Given(m.status, old.status), role |-> Given(m.role, old.role),
               version |-> old.version]
    BY DEF UpdatedMember
  <1>4. new.role \in Roles /\ new.status \in {"ACTIVE", "ARCHIVED"}
    BY <1>1, <1>2, <1>3 DEF Given, Membership
  <1>5. row = [status |-> new.status, role |-> new.role, version |-> old.version + 1]
    BY <1>3
  <1>6. row \in Membership
    BY <1>2, <1>4, <1>5 DEF Membership
  <1>7. UNCHANGED <<organization, accounts, invitations>> /\ Finish(r, "ok")
    BY DEF UpdateMember
  <1>8. CASE UNCHANGED <<members, events>>
    <2>1. TablesFine'
      BY <1>7, <1>8 DEF TablesFine, TypeOK, AnAdminRemains, ActiveAdmin, InvitationsAreForOutsiders,
                        Pending, Member
    <2> HIDE DEF IInv
    <2> QED BY <1>1, <1>7, <2>1, HolderFinishes
  <1>9. CASE members' = [members EXCEPT ![m.user] = row] /\ events' = events \o MemberEvents(r, new)
    <2>1. MemberEvents(r, new) \in Seq(Event)
      <3> DEFINE event(type) == [EventOf(r, type, m.actor, m.user) EXCEPT !.role = new.role]
      <3>1. \A type \in EventType : event(type) \in Event
        BY <1>1, <1>4, EventsAreEvents DEF TypeOK, Organization
      <3> HIDE DEF event
      <3>2. \A type \in EventType : <<event(type)>> \in Seq(Event)
        BY <3>1
      <3> DEFINE roles == IF new.role = old.role THEN <<>> ELSE <<event("MEMBER_ROLE_CHANGED")>>
                 statuses == IF new.status = old.status THEN <<>>
                             ELSE IF new.status = "ACTIVE" THEN <<event("MEMBER_REACTIVATED")>>
                             ELSE <<event("MEMBER_DEACTIVATED")>>
      <3>3. MemberEvents(r, new) = roles \o statuses
        BY DEF MemberEvents, event
      <3>4. roles \in Seq(Event) /\ statuses \in Seq(Event)
        BY <3>2 DEF EventType
      <3> QED BY <3>3, <3>4
    <2>2. members' \in [Users -> Membership] /\ events' \in Seq(Event)
      <3> HIDE DEF row, new
      <3>1. members' \in [Users -> Membership]
        BY <1>6, <1>9 DEF TypeOK
      <3>2. events' \in Seq(Event)
        BY <1>9, <2>1 DEF TypeOK
      <3> QED BY <3>1, <3>2
    <2>3. members'[m.user] = row /\ \A u \in Users \ {m.user} : members'[u] = members[u]
      BY <1>1, <1>9 DEF TypeOK
    <2>4. \A u \in Users : Member(u)' <=> Member(u)
      BY <1>1, <1>2, <1>4, <1>5, <2>3 DEF Member
    <2>5. AnAdminRemains'
      <3>1. PICK u \in Users : ActiveAdmin(u)
        BY DEF AnAdminRemains
      <3>2. CASE LeavingAdmin(m, old)
        BY <1>2, <2>3, <3>2 DEF AnAdminRemains, ActiveAdmin
      <3>3. CASE ~LeavingAdmin(m, old) /\ u = m.user
        BY <1>1, <1>2, <1>5, <2>3, <3>1, <3>3 DEF LeavingAdmin, AnAdminRemains, ActiveAdmin
      <3>4. CASE u # m.user
        BY <2>3, <3>1, <3>4 DEF AnAdminRemains, ActiveAdmin
      <3> QED BY <3>2, <3>3, <3>4
    <2>6. InvitationsAreForOutsiders'
      <3>1. \A n \in DOMAIN invitations : invitations[n].user \in Users
        BY InvitationType
      <3> QED BY <1>7, <2>4, <3>1 DEF InvitationsAreForOutsiders, Pending
    <2>7. TablesFine'
      BY <1>7, <2>2, <2>5, <2>6 DEF TablesFine, TypeOK
    <2> HIDE DEF IInv
    <2> QED BY <1>1, <1>7, <2>7, HolderFinishes
  <1> QED BY <1>8, <1>9 DEF UpdateMember

(* The index never refuses an invitation that was checked under the lock.  *)
LEMMA InviteInv ==
  ASSUME IInv, NEW r \in Requests, phase[r] = "commit", Invite(r),
         UNCHANGED <<clock, mailed, request, now, loaded>>
  PROVE  IInv'
  <1> USE DEF IInv
  <1> DEFINE m == request[r]
             n == Len(invitations) + 1
             row == [user |-> m.user, role |-> m.role, status |-> "PENDING", version |-> 1,
                     createdAt |-> now[r], expiresAt |-> now[r] + InvitationSeconds, by |-> r]
             event == InvitationEvent(r, "INVITATION_CREATED", m.actor, n, m.user, m.role)
  <1>1. /\ m.kind = "INVITE" /\ m.user \in Users /\ m.actor \in Users
        /\ m.role \in Roles
    BY DEF Invite, TypeOK, Request, Body
  <1>2. /\ ~Member(m.user)
        /\ \A k \in DOMAIN invitations : invitations[k].user = m.user => ~Pending(k)
    BY <1>1 DEF Ready, Relies
  <1>3. /\ invitations' = Append(invitations, row) /\ events' = Append(events, event)
        /\ phase' = [phase EXCEPT ![r] = "deliver"] /\ locks' = [locks EXCEPT ![r] = {}]
        /\ UNCHANGED reply /\ UNCHANGED <<organization, members, accounts>>
    BY <1>2 DEF Invite
  <1>4. row \in Invitation
    <2>1. now[r] \in Nat /\ now[r] + InvitationSeconds \in Nat
      BY TimeAssumption DEF TypeOK
    <2> QED BY <1>1, <2>1 DEF Invitation
  <1>5. event \in Event
    <2>1. invitations \in Seq(Invitation) /\ "INVITATION_CREATED" \in EventType
      BY DEF TypeOK, EventType
    <2>2. n \in Nat
      BY <2>1
    <2> HIDE DEF n
    <2> QED BY <1>1, <2>1, <2>2, EventsAreEvents, NameAssumption, IInvTypes
  <1>6. row.user = m.user /\ row.status = "PENDING"
    OBVIOUS
  <1> HIDE DEF row, event
  <1>7. invitations' \in Seq(Invitation) /\ events' \in Seq(Event)
    <2>1. invitations \in Seq(Invitation) /\ events \in Seq(Event)
      BY DEF TypeOK
    <2> QED BY <1>3, <1>4, <1>5, <2>1
  <1>8. /\ n \notin DOMAIN invitations /\ DOMAIN invitations' = DOMAIN invitations \cup {n}
        /\ invitations'[n] = row /\ \A k \in DOMAIN invitations : invitations'[k] = invitations[k]
    <2>1. invitations \in Seq(Invitation)
      BY DEF TypeOK
    <2> QED BY <1>3, <1>4, <2>1
  <1>9. AnAdminRemains'
    BY <1>3 DEF AnAdminRemains, ActiveAdmin
  <1>10. InvitationsAreForOutsiders'
    <2> SUFFICES ASSUME NEW k \in DOMAIN invitations', Pending(k)'
                 PROVE  /\ ~Member(invitations'[k].user)
                        /\ \A j \in DOMAIN invitations' :
                             Pending(j)' /\ invitations'[j].user = invitations'[k].user => j = k
      BY <1>3 DEF InvitationsAreForOutsiders, Member
    <2>1. CASE k = n
      BY <1>2, <1>6, <1>8, <2>1 DEF Pending
    <2>2. CASE k # n
      BY <1>2, <1>6, <1>8, <2>2 DEF Pending, InvitationsAreForOutsiders
    <2> QED BY <2>1, <2>2
  <1>11. TablesFine'
    BY <1>3, <1>7, <1>9, <1>10 DEF TablesFine, TypeOK
  <1>12. /\ phase' \in [Requests -> Phase] /\ reply' \in [Requests -> Reply]
         /\ \A q \in Requests \ {r} : phase'[q] = phase[q] /\ reply'[q] = reply[q]
         /\ phase'[r] = "deliver" /\ reply'[r] = reply[r]
    BY <1>3 DEF TypeOK, Phase
  <1>13. reply'[r] # "error"
    BY <1>1, <1>12 DEF OnlyAddressRacesFail
  <1> HIDE DEF IInv, n
  <1> QED BY <1>1, <1>3, <1>8, <1>11, <1>12, <1>13, HolderEnds

(* An invitation that is settled keeps its address and role, and the       *)
(* others are as pending as they were.                                     *)
LEMMA Settling ==
  ASSUME TypeOK, NEW n \in DOMAIN invitations, NEW status \in {"ACCEPTED", "REVOKED"},
         invitations' = [invitations EXCEPT ![n] = Settled(@, status)]
  PROVE  /\ invitations' \in Seq(Invitation) /\ DOMAIN invitations' = DOMAIN invitations
         /\ \A k \in DOMAIN invitations : invitations'[k].user = invitations[k].user
         /\ \A k \in DOMAIN invitations : invitations'[k].role = invitations[k].role
         /\ \A k \in DOMAIN invitations : Pending(k)' <=> Pending(k) /\ k # n
         /\ \A k \in DOMAIN invitations : k # n => invitations'[k] = invitations[k]
         /\ invitations'[n].status = status
         /\ invitations'[n].version = invitations[n].version + 1
  <1> DEFINE row == invitations[n]
             new == Settled(row, status)
  <1>1. invitations \in Seq(Invitation) /\ row \in Invitation
    BY InvitationType DEF TypeOK
  <1>2. /\ new \in Invitation /\ new.user = row.user /\ new.role = row.role
        /\ new.status = status /\ new.version = row.version + 1
    <2> DEFINE made(label, number) ==
                  [user |-> row.user, role |-> row.role, status |-> label,
                   createdAt |-> row.createdAt, expiresAt |-> row.expiresAt,
                   version |-> number, by |-> row.by]
    <2>1. row = made(row.status, row.version)
      BY <1>1 DEF Invitation
    <2>2. new = made(status, row.version + 1)
      <3>1. new = [row EXCEPT !.status = status, !.version = row.version + 1]
        BY DEF Settled
      <3> QED BY <2>1, <3>1
    <2>3. row.version + 1 \in Nat
      BY <1>1 DEF Invitation
    <2> QED BY <1>1, <2>2, <2>3 DEF Invitation
  <1>3. invitations' = [invitations EXCEPT ![n] = new]
    OBVIOUS
  <1> HIDE DEF new
  <1>4. /\ invitations' \in Seq(Invitation) /\ DOMAIN invitations' = DOMAIN invitations
        /\ invitations'[n] = new
        /\ \A k \in DOMAIN invitations : k # n => invitations'[k] = invitations[k]
    BY <1>1, <1>2, <1>3
  <1> QED BY <1>2, <1>4 DEF Pending

LEMMA RevokeInv ==
  ASSUME IInv, NEW r \in Requests, phase[r] = "commit", Revoke(r),
         UNCHANGED <<clock, mailed, request, now, loaded>>
  PROVE  IInv'
  <1> USE DEF IInv
  <1> DEFINE m == request[r]
             n == m.invitation
             row == invitations[n]
             event == InvitationEvent(r, "INVITATION_REVOKED", m.actor, n, row.user, row.role)
  <1>1. /\ m.kind = "REVOKE" /\ m.actor \in Users /\ n \in Nat /\ n \in DOMAIN invitations
    BY DEF Revoke, TypeOK, Request, Body, PhaseFits, Fits
  <1>2. /\ invitations' = [invitations EXCEPT ![n] = Settled(@, "REVOKED")]
        /\ events' = Append(events, event)
        /\ UNCHANGED <<organization, members, accounts>> /\ Finish(r, "ok")
    BY DEF Revoke
  <1>3. event \in Event
    BY <1>1, EventsAreEvents, InvitationType, NameAssumption DEF EventType
  <1>4. /\ invitations' \in Seq(Invitation) /\ DOMAIN invitations' = DOMAIN invitations
        /\ \A k \in DOMAIN invitations : invitations'[k].user = invitations[k].user
        /\ \A k \in DOMAIN invitations : Pending(k)' <=> Pending(k) /\ k # n
    BY <1>1, <1>2, Settling
  <1> HIDE DEF event
  <1>5. events' \in Seq(Event)
    <2>1. events \in Seq(Event)
      BY DEF TypeOK
    <2> QED BY <1>2, <1>3, <2>1
  <1>6. AnAdminRemains' /\ InvitationsAreForOutsiders'
    BY <1>2, <1>4 DEF AnAdminRemains, ActiveAdmin, InvitationsAreForOutsiders, Member
  <1>7. TablesFine'
    BY <1>2, <1>4, <1>5, <1>6 DEF TablesFine, TypeOK
  <1> HIDE DEF IInv
  <1> QED BY <1>1, <1>2, <1>4, <1>7, HolderFinishes

(* A pending invitation is for an outsider: only the users row can clash.  *)
LEMMA JoinInv ==
  ASSUME IInv, NEW r \in Requests, phase[r] = "commit", Join(r),
         UNCHANGED <<clock, mailed, request, now, loaded>>
  PROVE  IInv'
  <1> USE DEF IInv
  <1> DEFINE m == request[r]
             n == m.invitation
             row == invitations[n]
             u == IF m.kind = "ACCEPT" THEN m.actor ELSE row.user
             clash == Member(u) \/ (m.kind = "REGISTER" /\ u \in accounts)
             event == InvitationEvent(r, "INVITATION_ACCEPTED", u, n, row.user, row.role)
  <1>1. m.kind \in TokenKind /\ m.actor \in Users /\ n \in Nat /\ n \in DOMAIN invitations
    BY DEF Join, TypeOK, Request, Body, PhaseFits, Fits
  <1>2. Pending(n) /\ u = row.user /\ u \in Users /\ row.role \in Roles
    BY <1>1, InvitationType DEF Ready, Relies
  <1>3. ~Member(u) /\ \A k \in DOMAIN invitations : Pending(k) /\ invitations[k].user = u => k = n
    BY <1>1, <1>2 DEF InvitationsAreForOutsiders
  <1>4. CASE clash /\ Finish(r, "error") /\ UNCHANGED tables
    <2>1. m.kind = "REGISTER" /\ row.user \in accounts
      BY <1>2, <1>3, <1>4
    <2>2. UNCHANGED <<organization, members, accounts, invitations, events>>
      BY <1>4, TablesKept
    <2>3. TablesFine'
      BY <1>4, <2>2, TablesKept DEF TablesFine, TypeOK
    <2>4. /\ phase' \in [Requests -> Phase] /\ reply' \in [Requests -> Reply]
          /\ \A q \in Requests \ {r} : phase'[q] = phase[q] /\ reply'[q] = reply[q]
          /\ phase'[r] = "done" /\ locks' = [locks EXCEPT ![r] = {}]
      BY <1>4, FinishEnds DEF Reply
    <2> HIDE DEF IInv
    <2> QED BY <2>1, <2>2, <2>3, <2>4, HolderEnds
  <1>5. CASE /\ members' = [members EXCEPT ![u] = NewMembership(row.role)]
             /\ accounts' = accounts \cup {u}
             /\ invitations' = [invitations EXCEPT ![n] = Settled(@, "ACCEPTED")]
             /\ events' = Append(events, event)
             /\ UNCHANGED organization /\ Finish(r, "ok")
    <2>1. event \in Event
      BY <1>1, <1>2, EventsAreEvents, NameAssumption DEF EventType
    <2>2. /\ invitations' \in Seq(Invitation) /\ DOMAIN invitations' = DOMAIN invitations
          /\ \A k \in DOMAIN invitations : invitations'[k].user = invitations[k].user
          /\ \A k \in DOMAIN invitations : Pending(k)' <=> Pending(k) /\ k # n
      BY <1>1, <1>5, Settling
    <2> HIDE DEF event, u
    <2>3. events' \in Seq(Event)
      <3>1. events \in Seq(Event)
        BY DEF TypeOK
      <3> QED BY <1>5, <2>1, <3>1
    <2>4. /\ members' \in [Users -> Membership]
          /\ \A v \in Users \ {u} : members'[v] = members[v]
      <3>1. NewMembership(row.role) \in Membership
        BY <1>2 DEF NewMembership, Membership
      <3> QED BY <1>2, <1>5, <3>1 DEF TypeOK
    <2>5. accounts' \subseteq Users /\ accounts \subseteq accounts'
      BY <1>2, <1>5 DEF TypeOK
    <2>6. AnAdminRemains'
      <3>1. PICK v \in Users : ActiveAdmin(v)
        BY DEF AnAdminRemains
      <3>2. v # u
        BY <1>3, <3>1 DEF ActiveAdmin, Member
      <3> QED BY <2>4, <3>1, <3>2 DEF AnAdminRemains, ActiveAdmin
    <2>7. InvitationsAreForOutsiders'
      <3> SUFFICES ASSUME NEW k \in DOMAIN invitations, Pending(k), k # n
                   PROVE  /\ ~Member(invitations[k].user)'
                          /\ \A j \in DOMAIN invitations :
                               Pending(j) /\ invitations[j].user = invitations[k].user => j = k
        BY <2>2 DEF InvitationsAreForOutsiders, Member
      <3>1. invitations[k].user \in Users /\ invitations[k].user # u
        BY <1>3, InvitationType
      <3> QED BY <2>2, <2>4, <3>1 DEF InvitationsAreForOutsiders, Member
    <2>8. TablesFine'
      BY <1>5, <2>2, <2>3, <2>4, <2>5, <2>6, <2>7 DEF TablesFine, TypeOK
    <2>9. m.kind # "SIGN_UP"
      BY <1>1 DEF TokenKind
    <2> HIDE DEF IInv
    <2> QED BY <1>5, <2>2, <2>5, <2>8, <2>9, HolderFinishes
  <1> QED BY <1>4, <1>5 DEF Join

LEMMA SignUpInv ==
  ASSUME IInv, NEW r \in Requests, phase[r] = "commit", SignUp(r),
         UNCHANGED <<clock, mailed, request, now, loaded>>
  PROVE  IInv'
  <1> USE DEF IInv
  <1>1. /\ request[r].kind = "SIGN_UP" /\ request[r].user \in Users
        /\ accounts' = accounts \cup {request[r].user}
        /\ UNCHANGED <<organization, members, invitations, events>> /\ Finish(r, "ok")
    BY DEF SignUp, TypeOK, Request, Body
  <1>2. TypeOK'
    BY <1>1 DEF TypeOK, Finish, Phase, Reply
  <1>3. PhaseFits' /\ LocksHeld' /\ OneHolder'
    BY <1>1 DEF PhaseFits, Fits, LocksHeld, OneHolder, Guarded, TypeOK, Finish
  <1>4. Ready'
    BY <1>1, RelianceKept DEF Ready, Pending, TypeOK, Finish
  <1>5. OnlyAddressRacesFail'
    BY <1>1 DEF OnlyAddressRacesFail, TypeOK, Finish
  <1>6. AnAdminRemains' /\ InvitationsAreForOutsiders'
    BY <1>1 DEF AnAdminRemains, ActiveAdmin, InvitationsAreForOutsiders, Pending, Member
  <1> QED BY <1>2, <1>3, <1>4, <1>5, <1>6

LEMMA NextInv == ASSUME IInv, [Next]_vars PROVE IInv'
  <1>1. CASE Tick
    BY <1>1, TickInv
  <1>2. ASSUME NEW r \in Requests, Arrive(r) PROVE IInv'
    BY <1>2, ArriveInv
  <1>3. ASSUME NEW r \in Requests, Authenticate(r) PROVE IInv'
    BY <1>3, AuthenticateInv
  <1>4. ASSUME NEW r \in Requests, LockOrganization(r) PROVE IInv'
    BY <1>4, LockOrganizationInv
  <1>5. ASSUME NEW r \in Requests, Recheck(r) PROVE IInv'
    BY <1>5, RecheckInv
  <1>6. ASSUME NEW r \in Requests, LockInvitation(r) PROVE IInv'
    BY <1>6, LockInvitationInv
  <1>7. ASSUME NEW r \in Requests, Check(r) PROVE IInv'
    BY <1>7, CheckInv
  <1>8. ASSUME NEW r \in Requests, Commit(r) PROVE IInv'
    BY <1>8, RenameInv, UpdateMemberInv, InviteInv, RevokeInv, JoinInv, SignUpInv DEF Commit
  <1>9. ASSUME NEW r \in Requests, Deliver(r) PROVE IInv'
    BY <1>9, DeliverInv
  <1>10. ASSUME NEW r \in Requests, Rollback(r) PROVE IInv'
    BY <1>10, RollbackInv
  <1>11. CASE UNCHANGED vars
    <2>1. UNCHANGED tables /\ UNCHANGED <<clock, mailed, request, phase, now, loaded, locks, reply>>
      BY <1>11 DEF vars
    <2> QED BY <2>1, TablesKept, RelianceKept
            DEF IInv, TypeOK, PhaseFits, Fits, LocksHeld, OneHolder, Guarded, Ready, Pending,
                OnlyAddressRacesFail
  <1> QED BY <1>1, <1>2, <1>3, <1>4, <1>5, <1>6, <1>7, <1>8, <1>9, <1>10, <1>11 DEF Next, Step

-----------------------------------------------------------------------------
(* Governance implements the roster.                                       *)

(* Between its second look at the membership and its commit, a request of  *)
(* an administrator is made by somebody entitled to it.                    *)
StaysEntitled ==
    \A r \in Requests :
        request[r].kind \in AdminKind /\ phase[r] \in {"invitation", "checks", "commit"} =>
            Entitled(r)

(* Who holds the organization's lock keeps the others from it.             *)
LEMMA OnlyHolder ==
  ASSUME IInv, NEW r \in Requests, Guarded(r), UNCHANGED request,
         \A q \in Requests \ {r} : phase'[q] = phase[q]
  PROVE  \A q \in Requests \ {r} : ~Guarded(q) /\ ~Guarded(q)'
  BY DEF IInv, OneHolder, Guarded

(* To be entitled depends on the memberships alone.                        *)
LEMMA EntitlementKept ==
  ASSUME UNCHANGED <<members, request>>, NEW r
  PROVE  Entitled(r)' <=> Entitled(r)
  BY DEF Entitled

(* Which requests a step moves, and when the memberships change.           *)
LEMMA StepsMoveOne ==
  ASSUME IInv, NEW r \in Requests, Arrive(r) \/ Step(r) \/ Rollback(r)
  PROVE  /\ request' = request
         /\ \A q \in Requests \ {r} : phase'[q] = phase[q]
         /\ \/ phase'[r] \notin {"invitation", "checks", "commit"}
            \/ phase[r] \in {"invitation", "checks"}
            \/ phase[r] = "recheck" /\ Entitled(r)
            \/ request[r].kind \notin AdminKind
         /\ UNCHANGED members \/ (phase[r] = "commit" /\ request[r].kind # "SIGN_UP")
  <1> USE DEF Goto, GotoHolding, Refuse, Finish, Kind, AdminKind, TokenKind
  <1>1. TypeOK /\ request[r].kind \in Kind
    BY DEF IInv, TypeOK, Request, Body
  <1>2. CASE Arrive(r)
    BY <1>1, <1>2, TablesKept DEF Arrive, TypeOK
  <1>3. CASE Authenticate(r)
    BY <1>1, <1>3, TablesKept DEF Authenticate, TypeOK
  <1>4. CASE LockOrganization(r)
    BY <1>1, <1>4, TablesKept DEF LockOrganization, TypeOK
  <1>5. CASE Recheck(r)
    BY <1>1, <1>5, TablesKept DEF Recheck, TypeOK
  <1>6. CASE LockInvitation(r)
    BY <1>1, <1>6, TablesKept DEF LockInvitation, TypeOK
  <1>7. CASE Check(r)
    BY <1>1, <1>7, TablesKept DEF Check, TypeOK
  <1>8. CASE Commit(r)
    <2>1. /\ phase' = [phase EXCEPT ![r] = "done"] \/ phase' = [phase EXCEPT ![r] = "deliver"]
          /\ request' = request /\ phase[r] = "commit"
      BY <1>8 DEF Commit, Rename, UpdateMember, Invite, Revoke, Join, SignUp
    <2>2. UNCHANGED members \/ request[r].kind # "SIGN_UP"
      BY <1>8 DEF Commit, Rename, UpdateMember, Invite, Revoke, Join, SignUp
    <2> QED BY <1>1, <2>1, <2>2 DEF TypeOK
  <1>9. CASE Deliver(r)
    BY <1>1, <1>9, TablesKept DEF Deliver, TypeOK
  <1>10. CASE Rollback(r)
    BY <1>1, <1>10, TablesKept DEF Rollback, TypeOK
  <1> QED BY <1>2, <1>3, <1>4, <1>5, <1>6, <1>7, <1>8, <1>9, <1>10 DEF Step

(* The second look is not overtaken: who writes a membership holds the     *)
(* lock that the request waits with.                                       *)
LEMMA EntitledInv == ASSUME IInv, StaysEntitled, [Next]_vars PROVE StaysEntitled'
  <1>1. CASE UNCHANGED <<members, request, phase>>
    BY <1>1, EntitlementKept DEF StaysEntitled
  <1>2. ASSUME NEW r \in Requests, Arrive(r) \/ Step(r) \/ Rollback(r) PROVE StaysEntitled'
    <2>1. /\ request' = request
          /\ \A q \in Requests \ {r} : phase'[q] = phase[q]
          /\ \/ phase'[r] \notin {"invitation", "checks", "commit"}
             \/ phase[r] \in {"invitation", "checks"}
             \/ phase[r] = "recheck" /\ Entitled(r)
             \/ request[r].kind \notin AdminKind
          /\ UNCHANGED members \/ (phase[r] = "commit" /\ request[r].kind # "SIGN_UP")
      BY <1>2, StepsMoveOne
    <2>2. CASE UNCHANGED members
      BY <2>1, <2>2, EntitlementKept DEF StaysEntitled
    <2>3. CASE phase[r] = "commit" /\ request[r].kind # "SIGN_UP"
      <3>1. \A q \in Requests \ {r} : ~Guarded(q)'
        BY <2>1, <2>3, OnlyHolder DEF Guarded
      <3>2. phase'[r] \notin {"invitation", "checks", "commit"} \/ request[r].kind \notin AdminKind
        BY <2>1, <2>3
      <3> QED BY <2>1, <3>1, <3>2 DEF StaysEntitled, Guarded, AdminKind
    <2> QED BY <2>1, <2>2, <2>3
  <1>3. Tick \/ UNCHANGED vars => UNCHANGED <<members, request, phase>>
    BY DEF Tick, vars, tables
  <1> QED BY <1>1, <1>2, <1>3 DEF Next

(* The first state of the service is a first state of the roster.          *)
LEMMA InitRoster == Init => R!Init
  <1> SUFFICES ASSUME Init PROVE R!Init
    OBVIOUS
  <1>1. Offers = {}
    BY DEF Init, Offers
  <1>2. LastAuthor = "nobody"
    BY DEF Init, LastAuthor
  <1> QED BY <1>1, <1>2 DEF Init, R!Init

(* What the roster does not see.                                           *)
LEMMA RosterStutters ==
  ASSUME UNCHANGED <<organization, members, invitations, events>>
  PROVE  UNCHANGED R!vars
  BY DEF R!vars, Offers, Pending, LastAuthor

(* The author of the last act, after one or two more events.               *)
LEMMA AppendedAuthor ==
  ASSUME TypeOK, NEW event, events' = Append(events, event)
  PROVE  LastAuthor' = event.actor
  <1>1. events \in Seq(Event)
    BY DEF TypeOK
  <1>2. Len(events') = Len(events) + 1 /\ events'[Len(events) + 1] = event /\ events' # <<>>
    BY <1>1
  <1> QED BY <1>2 DEF LastAuthor

(* The events of an update that changes something.                         *)
RoleRow(r, new) ==
    EventRow(r, "MEMBER_ROLE_CHANGED", request[r].actor, request[r].user, 0,
             organization.name, new.role)
StatusRow(r, new) ==
    EventRow(r, IF new.status = "ACTIVE" THEN "MEMBER_REACTIVATED" ELSE "MEMBER_DEACTIVATED",
             request[r].actor, request[r].user, 0, organization.name, new.role)

(* The rows UpdateMember inserts, one for each of the two fields it        *)
(* changes.                                                                *)
LEMMA MemberEventRows ==
  ASSUME TypeOK, NEW r \in Requests, NEW new, new.role \in Roles
  PROVE  MemberEvents(r, new) =
            (IF new.role = loaded[r].role THEN <<>> ELSE <<RoleRow(r, new)>>)
                \o (IF new.status = loaded[r].status THEN <<>> ELSE <<StatusRow(r, new)>>)
  <1> DEFINE event(type) == [EventOf(r, type, request[r].actor, request[r].user)
                                EXCEPT !.role = new.role]
             roles == IF new.role = loaded[r].role THEN <<>>
                      ELSE <<event("MEMBER_ROLE_CHANGED")>>
             statuses == IF new.status = loaded[r].status THEN <<>>
                         ELSE IF new.status = "ACTIVE" THEN <<event("MEMBER_REACTIVATED")>>
                         ELSE <<event("MEMBER_DEACTIVATED")>>
  <1>1. request[r].actor \in Users /\ request[r].user \in Users
    BY DEF TypeOK, Request, Body
  <1>2. /\ event("MEMBER_ROLE_CHANGED") = RoleRow(r, new)
        /\ new.status = "ACTIVE" => event("MEMBER_REACTIVATED") = StatusRow(r, new)
        /\ new.status # "ACTIVE" => event("MEMBER_DEACTIVATED") = StatusRow(r, new)
    <2>1. \A type \in EventType :
            event(type) = EventRow(r, type, request[r].actor, request[r].user, 0,
                                   organization.name, new.role)
      BY <1>1, EventRows, NameAssumption
    <2> HIDE DEF event
    <2> QED BY <2>1 DEF RoleRow, StatusRow, EventType
  <1>3. MemberEvents(r, new) = roles \o statuses
    BY DEF MemberEvents
  <1> HIDE DEF event
  <1> QED BY <1>2, <1>3

(* The name and the version of the organization.                           *)
LEMMA OrganizationType == ASSUME IInv PROVE organization.name \in Names /\ organization.version \in Nat
  BY DEF IInv, TypeOK, Organization

(* The events of an update that changes something.                         *)
LEMMA UpdateEvents ==
  ASSUME TypeOK, NEW r \in Requests, NEW new, new.role \in Roles,
         events' = events \o MemberEvents(r, new),
         new.role # loaded[r].role \/ new.status # loaded[r].status
  PROVE  /\ events \in Seq(Event) /\ events' \in Seq(Event)
         /\ RoleRow(r, new) \in Event /\ StatusRow(r, new) \in Event
         /\ \A k \in 1..Len(events) : events'[k] = events[k]
         /\ \/ /\ new.role # loaded[r].role /\ new.status = loaded[r].status
               /\ Len(events') = Len(events) + 1
               /\ events'[Len(events) + 1] = RoleRow(r, new)
            \/ /\ new.role = loaded[r].role /\ new.status # loaded[r].status
               /\ Len(events') = Len(events) + 1
               /\ events'[Len(events) + 1] = StatusRow(r, new)
            \/ /\ new.role # loaded[r].role /\ new.status # loaded[r].status
               /\ Len(events') = Len(events) + 2
               /\ events'[Len(events) + 1] = RoleRow(r, new)
               /\ events'[Len(events) + 2] = StatusRow(r, new)
  <1> DEFINE p == new.role = loaded[r].role
             q == new.status = loaded[r].status
             a == RoleRow(r, new)
             b == StatusRow(r, new)
  <1>1. events \in Seq(Event)
    BY DEF TypeOK
  <1>2. a \in Event /\ b \in Event
    BY EventRowType DEF TypeOK, Request, Body, Organization, RoleRow, StatusRow, EventType
  <1>3. events' = events \o ((IF p THEN <<>> ELSE <<a>>) \o (IF q THEN <<>> ELSE <<b>>))
    BY MemberEventRows
  <1> HIDE DEF a, b
  <1>4. CASE ~p /\ q
    <2>1. events' = events \o (<<a>> \o <<>>)
      BY <1>3, <1>4
    <2>2. /\ events' \in Seq(Event) /\ Len(events') = Len(events) + 1
          /\ events'[Len(events) + 1] = a
          /\ \A k \in 1..Len(events) : events'[k] = events[k]
      BY <1>1, <1>2, <2>1
    <2> QED BY <1>1, <1>2, <1>4, <2>2 DEF a, b
  <1>5. CASE p /\ ~q
    <2>1. events' = events \o (<<>> \o <<b>>)
      BY <1>3, <1>5
    <2>2. /\ events' \in Seq(Event) /\ Len(events') = Len(events) + 1
          /\ events'[Len(events) + 1] = b
          /\ \A k \in 1..Len(events) : events'[k] = events[k]
      BY <1>1, <1>2, <2>1
    <2> QED BY <1>1, <1>2, <1>5, <2>2 DEF a, b
  <1>6. CASE ~p /\ ~q
    <2>1. events' = events \o (<<a>> \o <<b>>)
      BY <1>3, <1>6
    <2>2. /\ events' \in Seq(Event) /\ Len(events') = Len(events) + 2
          /\ events'[Len(events) + 1] = a /\ events'[Len(events) + 2] = b
          /\ \A k \in 1..Len(events) : events'[k] = events[k]
      BY <1>1, <1>2, <2>1
    <2> QED BY <1>1, <1>2, <1>6, <2>2 DEF a, b
  <1> QED BY <1>4, <1>5, <1>6

(* Both modules read the same policy.                                      *)
LEMMA SamePolicy ==
  /\ R!Roles = Roles
  /\ \A row, permission : R!Permits(row, permission) <=> Permits(row, permission)
  /\ \A role : R!NewMembership(role) = NewMembership(role)
  <1>1. R!RolePermissions = RolePermissions
    BY DEF RolePermissions, R!RolePermissions, Roles, R!Roles,
           MemberPermissions, R!MemberPermissions, ApManagerPermissions, R!ApManagerPermissions,
           OrgAdminPermissions, R!OrgAdminPermissions
  <1> QED BY <1>1 DEF Roles, R!Roles, Permits, R!Permits, NewMembership, R!NewMembership

(* Each commit is the roster's act of the same name, or leaves it as it    *)
(* was.                                                                    *)
LEMMA RenameRoster ==
  ASSUME IInv, StaysEntitled, NEW r \in Requests, phase[r] = "commit", Rename(r)
  PROVE  [R!Next]_(R!vars)
  <1> DEFINE m == request[r]
             event == [EventOf(r, "ORGANIZATION_RENAMED", m.actor, m.actor) EXCEPT !.name = m.name]
  <1>1. m.kind = "RENAME" /\ m.actor \in Users /\ m.name \in Names /\ TypeOK
    BY DEF Rename, IInv, TypeOK, Request, Body
  <1>2. Permits(members[m.actor], "MANAGE_ORG_SETTINGS")
    BY <1>1 DEF StaysEntitled, Entitled, PermissionFor, AdminKind
  <1>3. UNCHANGED <<members, accounts, invitations>>
    BY DEF Rename
  <1>4. CASE UNCHANGED <<organization, events>>
    BY <1>3, <1>4, RosterStutters
  <1>5. CASE organization'.name = m.name /\ events' = Append(events, event)
    <2>1. LastAuthor' = event.actor
      BY <1>1, <1>5, AppendedAuthor
    <2>2. event.actor = m.actor
      <3> DEFINE base == EventRow(r, "ORGANIZATION_RENAMED", m.actor, m.actor, 0,
                                  organization.name, "MEMBER")
      <3>1. event = [base EXCEPT !.name = m.name]
        BY DEF EventOf, EventRow
      <3> QED BY <3>1 DEF EventRow
    <2> HIDE DEF event
    <2>3. Offers' = Offers
      BY <1>3 DEF Offers, Pending
    <2>4. R!Rename(m.actor)
      BY <1>1, <1>2, <1>3, <1>5, <2>1, <2>2, <2>3, OrganizationType, SamePolicy DEF R!Rename
    <2> QED BY <1>1, <2>4 DEF R!Next
  <1> QED BY <1>4, <1>5 DEF Rename

LEMMA UpdateRoster ==
  ASSUME IInv, IInv', StaysEntitled, NEW r \in Requests, phase[r] = "commit", UpdateMember(r)
  PROVE  [R!Next]_(R!vars)
  <1> DEFINE m == request[r]
             old == loaded[r]
             new == UpdatedMember(m, old)
             row == [new EXCEPT !.version = old.version + 1]
  <1>1. /\ m \in Request /\ m.kind = "UPDATE_MEMBER" /\ m.user \in Users /\ m.actor \in Users
        /\ m.role \in Roles \cup {Unchanged} /\ m.status \in {"ACTIVE", "ARCHIVED", Unchanged}
        /\ TypeOK
    BY DEF UpdateMember, IInv, TypeOK, Request, Body
  <1>2. old = members[m.user] /\ old \in Membership /\ old.status # "ABSENT"
    BY <1>1 DEF IInv, Ready, Relies, TypeOK, Member
  <1>3. new = [status |-> Given(m.status, old.status), role |-> Given(m.role, old.role),
               version |-> old.version]
    BY DEF UpdatedMember
  <1>4. new.role \in Roles /\ new.status \in {"ACTIVE", "ARCHIVED"}
    BY <1>1, <1>2, <1>3 DEF Given, Membership
  <1>5. row = [status |-> new.status, role |-> new.role, version |-> old.version + 1]
    BY <1>3
  <1>6. Permits(members[m.actor], "MANAGE_ORG_MEMBERS")
    BY <1>1 DEF StaysEntitled, Entitled, PermissionFor, AdminKind
  <1>7. UNCHANGED <<organization, accounts, invitations>>
    BY DEF UpdateMember
  <1>8. CASE UNCHANGED <<members, events>>
    BY <1>7, <1>8, RosterStutters
  <1>9. CASE /\ new # old
             /\ members' = [members EXCEPT ![m.user] = row]
             /\ events' = events \o MemberEvents(r, new)
    <2>1. R!Admins(members') # {}
      BY DEF IInv, AnAdminRemains, ActiveAdmin, R!Admins
    <2>2. new.role # old.role \/ new.status # old.status
      <3>1. old = [status |-> old.status, role |-> old.role, version |-> old.version]
        BY <1>2 DEF Membership
      <3>2. new = [status |-> new.status, role |-> new.role, version |-> old.version]
        BY <1>3
      <3> HIDE DEF new, old
      <3> QED BY <1>9, <3>1, <3>2
    <2>3. LastAuthor' = m.actor
      <3>1. RoleRow(r, new).actor = m.actor /\ StatusRow(r, new).actor = m.actor
        BY DEF RoleRow, StatusRow, EventRow
      <3> HIDE DEF new, row
      <3>2. /\ events' \in Seq(Event) /\ Len(events') \in Nat \ {0}
            /\ \/ events'[Len(events')] = RoleRow(r, new)
               \/ events'[Len(events')] = StatusRow(r, new)
        BY <1>1, <1>4, <1>9, <2>2, UpdateEvents
      <3> QED BY <3>1, <3>2 DEF LastAuthor
    <2>4. Offers' = Offers
      BY <1>7 DEF Offers, Pending
    <2>5. R!Change(m.actor, m.user)
      <3> HIDE DEF new, old
      <3>1. row = [status |-> new.status, role |-> new.role, version |-> members[m.user].version + 1]
        BY <1>2, <1>5
      <3> HIDE DEF row
      <3>2. \E role \in Roles, status \in {"ACTIVE", "ARCHIVED"} :
                members' = [members EXCEPT ![m.user] =
                    [status |-> status, role |-> role, version |-> members[m.user].version + 1]]
        BY <1>4, <1>9, <3>1
      <3> QED BY <1>1, <1>2, <1>6, <1>7, <2>1, <2>3, <2>4, <3>2, SamePolicy DEF R!Change
    <2> QED BY <1>1, <2>5 DEF R!Next
  <1> QED BY <1>8, <1>9 DEF UpdateMember

(* The offer an invitation makes, and that only one invitation makes it.   *)
OfferOf(n) == [user |-> invitations[n].user, role |-> invitations[n].role]

LEMMA OffersArePending == \A offer : offer \in Offers <=>
            \E n \in DOMAIN invitations : Pending(n) /\ offer = OfferOf(n)
  BY DEF Offers, OfferOf

(* A new invitation makes one more offer.                                  *)
LEMMA InviteRoster ==
  ASSUME IInv, StaysEntitled, NEW r \in Requests, phase[r] = "commit", Invite(r)
  PROVE  [R!Next]_(R!vars)
  <1> DEFINE m == request[r]
             n == Len(invitations) + 1
             row == [user |-> m.user, role |-> m.role, status |-> "PENDING", version |-> 1,
                     createdAt |-> now[r], expiresAt |-> now[r] + InvitationSeconds, by |-> r]
             event == InvitationEvent(r, "INVITATION_CREATED", m.actor, n, m.user, m.role)
             offer == [user |-> m.user, role |-> m.role]
  <1>1. /\ m.kind = "INVITE" /\ m.user \in Users /\ m.actor \in Users /\ m.role \in Roles
        /\ TypeOK /\ invitations \in Seq(Invitation)
    BY DEF Invite, IInv, TypeOK, Request, Body
  <1>2. /\ ~Member(m.user)
        /\ \A k \in DOMAIN invitations : invitations[k].user = m.user => ~Pending(k)
    BY <1>1 DEF IInv, Ready, Relies
  <1>3. /\ invitations' = Append(invitations, row) /\ events' = Append(events, event)
        /\ UNCHANGED <<organization, members, accounts>>
    BY <1>2 DEF Invite
  <1>4. Permits(members[m.actor], "MANAGE_ORG_INVITATIONS")
    BY <1>1 DEF StaysEntitled, Entitled, PermissionFor, AdminKind
  <1>5. LastAuthor' = m.actor
    <2>1. event = EventRow(r, "INVITATION_CREATED", m.actor, m.user, n, organization.name, m.role)
      BY <1>1, InvitationEventRow DEF EventType
    <2>2. event.actor = m.actor
      BY <2>1 DEF EventRow
    <2> HIDE DEF event
    <2> QED BY <1>1, <1>3, <2>2, AppendedAuthor
  <1>6. R!OfferedTo(m.user) = {}
    <2>1. ASSUME NEW o \in Offers PROVE o.user # m.user
      <3>1. PICK k \in DOMAIN invitations : Pending(k) /\ o = OfferOf(k)
        BY OffersArePending
      <3> QED BY <1>2, <3>1 DEF OfferOf
    <2> QED BY <2>1 DEF R!OfferedTo
  <1>7. Offers' = Offers \cup {offer}
    <2>1. /\ n \notin DOMAIN invitations /\ DOMAIN invitations' = DOMAIN invitations \cup {n}
          /\ invitations'[n] = row /\ \A k \in DOMAIN invitations : invitations'[k] = invitations[k]
      <3> HIDE DEF row
      <3> QED BY <1>1, <1>3
    <2>2. /\ [user |-> invitations'[n].user, role |-> invitations'[n].role] = offer
          /\ invitations'[n].status = "PENDING"
      BY <2>1
    <2>3. \A o : o \in Offers' <=>
            \E k \in DOMAIN invitations' :
                /\ invitations'[k].status = "PENDING"
                /\ o = [user |-> invitations'[k].user, role |-> invitations'[k].role]
      BY DEF Offers, Pending
    <2> HIDE DEF n, row, offer
    <2>4. \A o : o \in Offers' <=> o = offer \/ o \in Offers
      BY <2>1, <2>2, <2>3, OffersArePending DEF OfferOf, Pending
    <2> QED BY <2>4
  <1>8. R!Offer(m.actor, m.user, m.role)
    BY <1>2, <1>3, <1>4, <1>5, <1>6, <1>7, SamePolicy DEF R!Offer, Member
  <1>9. m.role \in R!Roles
    BY <1>1, SamePolicy
  <1> QED BY <1>1, <1>8, <1>9 DEF R!Next

(* To settle an invitation takes away its offer, and no other.             *)
LEMMA SettledOffer ==
  ASSUME IInv, NEW n \in DOMAIN invitations, NEW status \in {"ACCEPTED", "REVOKED"}, Pending(n),
         invitations' = [invitations EXCEPT ![n] = Settled(@, status)]
  PROVE  OfferOf(n) \in Offers /\ Offers' = Offers \ {OfferOf(n)}
  <1>1. /\ DOMAIN invitations' = DOMAIN invitations
        /\ \A k \in DOMAIN invitations : invitations'[k].user = invitations[k].user
        /\ \A k \in DOMAIN invitations : invitations'[k].role = invitations[k].role
        /\ \A k \in DOMAIN invitations : Pending(k)' <=> Pending(k) /\ k # n
    BY Settling DEF IInv
  <1>2. \A k \in DOMAIN invitations : OfferOf(k)' = OfferOf(k)
    BY <1>1 DEF OfferOf
  <1>3. \A o : o \in Offers' <=> \E k \in DOMAIN invitations' : Pending(k)' /\ o = OfferOf(k)'
    BY DEF Offers, OfferOf
  <1>4. \A k \in DOMAIN invitations : Pending(k) /\ OfferOf(k) = OfferOf(n) => k = n
    BY DEF IInv, InvitationsAreForOutsiders, OfferOf
  <1> QED BY <1>1, <1>2, <1>3, <1>4, OffersArePending

(* A revoked or declined offer is withdrawn.                               *)
LEMMA RevokeRoster ==
  ASSUME IInv, StaysEntitled, NEW r \in Requests, phase[r] = "commit", Revoke(r)
  PROVE  [R!Next]_(R!vars)
  <1> DEFINE m == request[r]
             n == m.invitation
             row == invitations[n]
             event == InvitationEvent(r, "INVITATION_REVOKED", m.actor, n, row.user, row.role)
  <1>1. /\ m.kind = "REVOKE" /\ m.actor \in Users /\ n \in Nat /\ n \in DOMAIN invitations
        /\ Pending(n) /\ TypeOK
    BY DEF Revoke, IInv, TypeOK, Request, Body, PhaseFits, Fits, Ready, Relies
  <1>2. /\ invitations' = [invitations EXCEPT ![n] = Settled(@, "REVOKED")]
        /\ events' = Append(events, event)
        /\ UNCHANGED <<organization, members, accounts>>
    BY DEF Revoke
  <1>3. Permits(members[m.actor], "MANAGE_ORG_INVITATIONS")
    BY <1>1 DEF StaysEntitled, Entitled, PermissionFor, AdminKind
  <1>4. LastAuthor' = m.actor
    <2>1. event = EventRow(r, "INVITATION_REVOKED", m.actor, row.user, n, organization.name, row.role)
      BY <1>1, InvitationType, InvitationEventRow DEF EventType
    <2>2. event.actor = m.actor
      BY <2>1 DEF EventRow
    <2> HIDE DEF event
    <2> QED BY <1>1, <1>2, <2>2, AppendedAuthor
  <1>5. OfferOf(n) \in Offers /\ Offers' = Offers \ {OfferOf(n)}
    BY <1>1, <1>2, SettledOffer
  <1>6. R!Withdraw(m.actor, OfferOf(n))
    BY <1>2, <1>3, <1>4, <1>5, SamePolicy DEF R!Withdraw
  <1> QED BY <1>1, <1>5, <1>6 DEF R!Next

(* An accepted offer makes a member.                                       *)
LEMMA JoinRoster ==
  ASSUME IInv, NEW r \in Requests, phase[r] = "commit", Join(r)
  PROVE  [R!Next]_(R!vars)
  <1> DEFINE m == request[r]
             n == m.invitation
             row == invitations[n]
             u == IF m.kind = "ACCEPT" THEN m.actor ELSE row.user
             event == InvitationEvent(r, "INVITATION_ACCEPTED", u, n, row.user, row.role)
  <1>1. /\ m.kind \in TokenKind /\ m.actor \in Users /\ n \in Nat /\ n \in DOMAIN invitations
        /\ TypeOK
    BY DEF Join, IInv, TypeOK, Request, Body, PhaseFits, Fits
  <1>2. Pending(n) /\ u = row.user /\ u \in Users /\ row.role \in Roles /\ ~Member(u)
    BY <1>1, InvitationType DEF IInv, Ready, Relies, InvitationsAreForOutsiders
  <1>3. CASE UNCHANGED tables
    BY <1>3, TablesKept, RosterStutters
  <1>4. CASE /\ members' = [members EXCEPT ![u] = NewMembership(row.role)]
             /\ invitations' = [invitations EXCEPT ![n] = Settled(@, "ACCEPTED")]
             /\ events' = Append(events, event)
             /\ UNCHANGED organization
    <2>1. LastAuthor' = u
      <3>1. event = EventRow(r, "INVITATION_ACCEPTED", u, row.user, n, organization.name, row.role)
        BY <1>1, <1>2, InvitationEventRow DEF EventType
      <3>2. event.actor = u
        BY <3>1 DEF EventRow
      <3> HIDE DEF event
      <3> QED BY <1>1, <1>4, <3>2, AppendedAuthor
    <2>2. OfferOf(n) \in Offers /\ Offers' = Offers \ {OfferOf(n)}
      BY <1>1, <1>2, <1>4, SettledOffer
    <2>3. OfferOf(n).user = u /\ OfferOf(n).role = row.role
      BY <1>2 DEF OfferOf
    <2> HIDE DEF u, row
    <2>4. R!Join(OfferOf(n))
      BY <1>2, <1>4, <2>1, <2>2, <2>3, SamePolicy DEF R!Join, Member
    <2> QED BY <2>2, <2>4 DEF R!Next
  <1> QED BY <1>3, <1>4 DEF Join

(* Every step of the service is a step of the roster, or none.             *)
LEMMA NextRoster == ASSUME IInv, IInv', StaysEntitled, [Next]_vars PROVE [R!Next]_(R!vars)
  <1>1. ASSUME NEW r \in Requests, Commit(r) PROVE [R!Next]_(R!vars)
    <2>1. CASE SignUp(r)
      BY <2>1, RosterStutters DEF SignUp
    <2> QED BY <1>1, <2>1, RenameRoster, UpdateRoster, InviteRoster, RevokeRoster, JoinRoster DEF Commit
  <1>2. ASSUME NEW r \in Requests,
               \/ Arrive(r) \/ Authenticate(r) \/ LockOrganization(r) \/ Recheck(r)
               \/ LockInvitation(r) \/ Check(r) \/ Deliver(r) \/ Rollback(r)
        PROVE  UNCHANGED tables
    BY <1>2 DEF Arrive, Authenticate, LockOrganization, Recheck, LockInvitation, Check, Deliver, Rollback, Refuse
  <1>3. Tick \/ UNCHANGED vars => UNCHANGED tables
    BY DEF Tick, vars
  <1>4. UNCHANGED tables => UNCHANGED R!vars
    BY TablesKept, RosterStutters
  <1> QED BY <1>1, <1>2, <1>3, <1>4 DEF Next, Step

-----------------------------------------------------------------------------
(* The audit trail explains the tables.                                    *)

(* The events about a membership.                                          *)
About(u) == RoleEvents(u) \cup StatusEvents(u)

(* What a request that edits by version or by token has not overlooked:    *)
(* as long as the row is what it saw, the events about it are older.       *)
SawAll(r) ==
    LET m == request[r] IN
    /\ m.kind = "RENAME" =>
        /\ m.seen <= organization.version
        /\ m.seen = organization.version => \A n \in Renames : events[n].at <= now[r]
    /\ m.kind = "UPDATE_MEMBER" =>
        /\ m.seen <= members[m.user].version
        /\ m.seen = members[m.user].version => \A n \in About(m.user) : events[n].at <= now[r]
    /\ m.kind \in TokenKind \cup {"REVOKE"} /\ Pending(m.invitation) =>
        \A n \in InvitationEvents(m.invitation) : events[n].at <= now[r]
SeenInOrder ==
    \A r \in Requests :
        /\ now[r] <= clock
        /\ phase[r] # "new" => SawAll(r)
        /\ phase[r] = "commit" /\ request[r].kind = "RENAME" =>
            request[r].seen = organization.version
        /\ phase[r] = "commit" /\ request[r].kind = "UPDATE_MEMBER" =>
            request[r].seen = loaded[r].version

(* An event was written by a request that is over, at a time past.         *)
EventsFit ==
    \A n \in DOMAIN events :
        /\ events[n].at <= clock
        /\ phase[events[n].by] \in {"deliver", "done"}
        /\ events[n].invitation <= Len(invitations)
(* Outsiders have an empty row; an invitation is recorded with its first   *)
(* event.                                                                  *)
RowsFit ==
    /\ \A u \in Users : ~Member(u) => members[u] = NoMembership
    /\ \A k \in DOMAIN invitations : InvitationEvents(k) # {}

(* The inductive invariant of the trail, beside IInv.                      *)
TrailInv == SeenInOrder /\ EventsFit /\ RowsFit /\ AuditExplainsState

(* Events are only added, at the end.                                      *)
Grows ==
    /\ events \in Seq(Event) /\ events' \in Seq(Event)
    /\ Len(events) <= Len(events')
    /\ \A k \in 1..Len(events) : events'[k] = events[k]
Fresh == (Len(events) + 1)..Len(events')

(* The old events keep their numbers, the new ones come after them.        *)
LEMMA Growth ==
  ASSUME Grows
  PROVE  /\ Len(events) \in Nat /\ DOMAIN events = 1..Len(events)
         /\ DOMAIN events' = DOMAIN events \cup Fresh
         /\ \A n \in DOMAIN events : events'[n] = events[n]
         /\ \A n \in DOMAIN events, k \in Fresh : n \in Nat /\ k \in Nat /\ n < k
         /\ DOMAIN events \cap Fresh = {}
  <1>1. Len(events) \in Nat /\ Len(events') \in Nat
        /\ DOMAIN events = 1..Len(events) /\ DOMAIN events' = 1..Len(events')
    BY DEF Grows
  <1> QED BY <1>1 DEF Grows, Fresh

(* A commit of one event.                                                  *)
LEMMA OneMore ==
  ASSUME events \in Seq(Event), NEW e \in Event, events' = Append(events, e)
  PROVE  Grows /\ Fresh = {Len(events) + 1} /\ events'[Len(events) + 1] = e
  <1>1. /\ Len(events) \in Nat /\ Len(events') = Len(events) + 1 /\ events' \in Seq(Event)
        /\ events'[Len(events) + 1] = e
        /\ \A k \in 1..Len(events) : events'[k] = events[k]
    OBVIOUS
  <1> QED BY <1>1 DEF Grows, Fresh

(* The events about a member, an invitation and the name, as they grow.    *)
LEMMA TrailGrows ==
  ASSUME Grows
  PROVE  /\ \A types, u : EventsAbout(types, u)'
                = EventsAbout(types, u) \cup
                    {n \in Fresh : events'[n].type \in types /\ events'[n].user = u}
         /\ \A k : InvitationEvents(k)'
                = InvitationEvents(k) \cup {n \in Fresh : events'[n].invitation = k}
         /\ Renames' = Renames \cup {n \in Fresh : events'[n].type = "ORGANIZATION_RENAMED"}
  BY Growth DEF EventsAbout, InvitationEvents, Renames

(* The trails are sets of event numbers.                                   *)
LEMMA TrailInEvents ==
  ASSUME events \in Seq(Event)
  PROVE  /\ \A types, u : EventsAbout(types, u) \subseteq 1..Len(events)
         /\ \A k : InvitationEvents(k) \subseteq 1..Len(events)
         /\ Renames \subseteq 1..Len(events)
         /\ Len(events) \in Nat /\ IsFiniteSet(1..Len(events))
  BY FS_Interval DEF EventsAbout, InvitationEvents, Renames

(* A set of natural numbers has a least element; so a set below a bound    *)
(* has a greatest.                                                         *)
LEMMA LeastExists ==
  ASSUME NEW S \in SUBSET Nat, S # {}
  PROVE  \E k \in S : \A j \in S : k <= j
  <1> DEFINE Below == {pair \in Nat \X Nat : pair[1] < pair[2]}
  <1>1. IsWellFoundedOn(Below, Nat)
    BY NatLessThanWellFounded DEF OpToRel
  <1>2. PICK k \in S : \A j \in S : <<j, k>> \notin Below
    <2> HIDE DEF Below
    <2> QED BY <1>1, WFMin
  <1>3. ASSUME NEW j \in S PROVE k <= j
    <2>1. j \in Nat /\ k \in Nat /\ <<j, k>> \notin Below
      BY <1>2
    <2> QED BY <2>1
  <1> QED BY <1>3

(* Latest is what its name says, where there is one to choose.             *)
LEMMA LatestIs ==
  ASSUME NEW S \in SUBSET Nat, NEW k \in S, \A j \in S : j <= k
  PROVE  Latest(S) = k
  <1>1. \A i \in S : (\A j \in S : j <= i) => i = k
    OBVIOUS
  <1> QED BY <1>1 DEF Latest

LEMMA LatestExists ==
  ASSUME NEW n \in Nat, NEW S \in SUBSET (1..n), S # {}
  PROVE  Latest(S) \in S
  <1> DEFINE T == {n - k : k \in S}
  <1>1. T \in SUBSET Nat /\ T # {}
    <2>1. \A k \in S : n - k \in Nat
      OBVIOUS
    <2>2. PICK k : k \in S
      OBVIOUS
    <2>3. n - k \in T
      BY <2>2
    <2> QED BY <2>1, <2>3
  <1>2. PICK d \in T : \A c \in T : d <= c
    BY <1>1, LeastExists
  <1>3. PICK k \in S : d = n - k
    BY <1>2
  <1>4. ASSUME NEW j \in S PROVE j <= k
    <2>1. n - j \in T
      OBVIOUS
    <2>2. n - k <= n - j
      BY <1>2, <1>3, <2>1
    <2> QED BY <2>2
  <1> QED BY <1>4, LatestIs

(* What the latest of some earlier events says is not changed by new ones; *)
(* a new event among them is the latest.                                   *)
LEMMA LatestKept ==
  ASSUME Grows, NEW S \in SUBSET (DOMAIN events), S # {}
  PROVE  events'[Latest(S)] = events[Latest(S)]
  BY Growth, LatestExists

(* A new event among earlier ones is the latest.                           *)
LEMMA LatestNew ==
  ASSUME Grows, NEW S \in SUBSET (DOMAIN events), NEW n \in Fresh
  PROVE  Latest(S \cup {n}) = n
  <1>1. S \cup {n} \in SUBSET Nat /\ \A j \in S \cup {n} : j <= n
    BY Growth
  <1> QED BY <1>1, LatestIs

Authors(S) == {events[n].by : n \in S}
AuthorsNow(S) == {events'[n].by : n \in S}

(* The requests that wrote some events; old events keep them.              *)
LEMMA AuthorsKept ==
  ASSUME Grows, NEW S \in SUBSET (DOMAIN events)
  PROVE  AuthorsNow(S) = Authors(S)
  BY Growth DEF AuthorsNow, Authors

(* One more author of some events; one more event.                         *)
LEMMA OneMoreAuthor ==
  ASSUME Grows, NEW S \in SUBSET (DOMAIN events), NEW r, NEW T \in SUBSET Fresh, T # {},
         \A n \in T : events'[n].by = r, \A n \in S : events[n].by # r
  PROVE  Cardinality(AuthorsNow(S \cup T)) = Cardinality(Authors(S)) + 1
  <1> DEFINE A == {events[n].by : n \in S}
  <1>1. IsFiniteSet(S)
    <2>1. IsFiniteSet(1..Len(events))
      BY Growth, FS_Interval
    <2> QED BY <2>1, Growth, FS_Subset
  <1>2. IsFiniteSet(A)
    <2> DEFINE by == [n \in S |-> events[n].by]
    <2>1. by \in Surjection(S, A)
      BY DEF Surjection
    <2> QED BY <1>1, <2>1, FS_Surjection
  <1>3. r \notin A
    OBVIOUS
  <1>4. {events'[n].by : n \in S \cup T} = A \cup {r}
    BY Growth
  <1> QED BY <1>2, <1>3, <1>4, FS_AddElement DEF Authors, AuthorsNow

(* One more event in a trail.                                              *)
LEMMA OneMoreEvent ==
  ASSUME Grows, NEW S \in SUBSET (DOMAIN events), NEW n \in Fresh
  PROVE  Cardinality(S \cup {n}) = Cardinality(S) + 1
  <1>1. IsFiniteSet(S)
    <2>1. IsFiniteSet(1..Len(events))
      BY Growth, FS_Interval
    <2> QED BY <2>1, Growth, FS_Subset
  <1>2. n \notin S
    BY Growth
  <1> QED BY <1>1, <1>2, FS_AddElement

(* The parts of the trail's completeness.                                  *)
MemberTypes == {"INVITATION_ACCEPTED", "MEMBER_ROLE_CHANGED", "MEMBER_DEACTIVATED",
                "MEMBER_REACTIVATED"}
SameSubject(d, e) ==
    \/ d.type = "ORGANIZATION_RENAMED" /\ e.type = "ORGANIZATION_RENAMED"
    \/ d.invitation # 0 /\ d.invitation = e.invitation
    \/ d.type \in MemberTypes /\ e.type \in MemberTypes /\ d.user = e.user
MemberExplained(u) == members[u] = MemberFromEvents(u)
InvitationExplained(k) ==
    /\ invitations[k].status = InvitationFromEvents(k)
    /\ invitations[k].version = Cardinality(InvitationEvents(k))
NameExplained ==
    /\ organization.version = 1 + Cardinality(Renames)
    /\ organization.name = IF Renames = {} THEN FirstName ELSE events[Latest(Renames)].name
InTime ==
    \A a, b \in DOMAIN events :
        a < b /\ SameSubject(events[a], events[b]) => events[a].at <= events[b].at

(* The events about one subject, by the subject's number or name.          *)
LEMMA AboutIs ==
  \A u : About(u) = {n \in DOMAIN events : events[n].type \in MemberTypes /\ events[n].user = u}
  BY DEF About, RoleEvents, StatusEvents, Joined, EventsAbout, MemberTypes

LEMMA SubjectIs ==
  ASSUME events \in Seq(Event), NEW a \in DOMAIN events, NEW b \in DOMAIN events
  PROVE  AboutTheSame(a, b) <=> SameSubject(events[a], events[b])
  <1>1. events[a].user \in Users
    <2>1. events[a] \in Event
      OBVIOUS
    <2> QED BY <2>1 DEF Event
  <1>2. \A u : RoleEvents(u) \cup StatusEvents(u) = About(u)
    BY DEF About
  <1> QED BY <1>1, <1>2, AboutIs DEF AboutTheSame, SameSubject, Renames

Parts ==
    /\ \A u \in Users : MemberExplained(u)
    /\ \A k \in DOMAIN invitations : InvitationExplained(k)
    /\ NameExplained /\ InTime

(* The four parts are the property.                                        *)
LEMMA AuditParts == events \in Seq(Event) => (AuditExplainsState <=> Parts)
  BY SubjectIs DEF AuditExplainsState, MemberExplained, InvitationExplained, NameExplained, InTime, Parts

LEMMA AuditPartsNext == TypeOK' => (AuditExplainsState' <=> Parts')
  <1>1. TypeOK => (AuditExplainsState <=> Parts)
    BY AuditParts DEF TypeOK
  <1> QED BY <1>1, PTL

(* A member nobody writes about.                                           *)
LEMMA MemberKept ==
  ASSUME Grows, NEW u, members'[u] = members[u], MemberExplained(u),
         \A n \in Fresh : events'[n].type \in MemberTypes => events'[n].user # u
  PROVE  MemberExplained(u)' /\ About(u)' = About(u)
  <1>1. RoleEvents(u)' = RoleEvents(u) /\ StatusEvents(u)' = StatusEvents(u)
    <2>1. ASSUME NEW types \in SUBSET MemberTypes
          PROVE  EventsAbout(types, u)' = EventsAbout(types, u)
      <3>1. {n \in Fresh : events'[n].type \in types /\ events'[n].user = u} = {}
        OBVIOUS
      <3>2. EventsAbout(types, u)' = EventsAbout(types, u) \cup
                {n \in Fresh : events'[n].type \in types /\ events'[n].user = u}
        BY TrailGrows
      <3> QED BY <3>1, <3>2
    <2> QED BY <2>1 DEF RoleEvents, StatusEvents, Joined, MemberTypes
  <1>2. RoleEvents(u) \subseteq DOMAIN events /\ StatusEvents(u) \subseteq DOMAIN events
    BY DEF RoleEvents, StatusEvents, Joined, EventsAbout
  <1>3. About(u)' = About(u) /\ About(u) \subseteq DOMAIN events
    BY <1>1, <1>2 DEF About
  <1>4. {events'[n].by : n \in About(u)} = {events[n].by : n \in About(u)}
    BY <1>3, AuthorsKept DEF Authors, AuthorsNow
  <1>5. /\ StatusEvents(u) # {} =>
            events'[Latest(StatusEvents(u))] = events[Latest(StatusEvents(u))]
        /\ RoleEvents(u) # {} => events'[Latest(RoleEvents(u))] = events[Latest(RoleEvents(u))]
    BY <1>2, LatestKept
  <1>6. MemberFromEvents(u)' = MemberFromEvents(u)
    BY <1>1, <1>3, <1>4, <1>5 DEF MemberFromEvents, About
  <1> QED BY <1>3, <1>6 DEF MemberExplained

(* An invitation nobody writes about.                                      *)
LEMMA InvitationKept ==
  ASSUME Grows, NEW k, InvitationEvents(k) # {}, InvitationExplained(k),
         invitations'[k] = invitations[k], \A n \in Fresh : events'[n].invitation # k
  PROVE  InvitationExplained(k)' /\ InvitationEvents(k)' = InvitationEvents(k)
  <1>1. InvitationEvents(k)' = InvitationEvents(k)
    BY TrailGrows
  <1>2. events'[Latest(InvitationEvents(k))] = events[Latest(InvitationEvents(k))]
    BY LatestKept DEF InvitationEvents
  <1> QED BY <1>1, <1>2 DEF InvitationExplained, InvitationFromEvents

(* A name nobody writes about.                                             *)
LEMMA NameKept ==
  ASSUME Grows, NameExplained, UNCHANGED organization,
         \A n \in Fresh : events'[n].type # "ORGANIZATION_RENAMED"
  PROVE  NameExplained' /\ Renames' = Renames
  <1>1. Renames' = Renames
    BY TrailGrows
  <1>2. Renames # {} => events'[Latest(Renames)] = events[Latest(Renames)]
    BY LatestKept DEF Renames
  <1> QED BY <1>1, <1>2 DEF NameExplained

(* New events that carry one time, which no earlier event about the same   *)
(* subject exceeds.                                                        *)
LEMMA TimeKept ==
  ASSUME Grows, InTime, NEW t \in Nat, \A b \in Fresh : events'[b].at = t,
         \A a \in DOMAIN events, b \in Fresh :
            SameSubject(events[a], events'[b]) => events[a].at <= t
  PROVE  InTime'
  <1> SUFFICES ASSUME NEW a \in DOMAIN events', NEW b \in DOMAIN events', a < b,
                      SameSubject(events'[a], events'[b])
               PROVE  events'[a].at <= events'[b].at
    BY DEF InTime, SameSubject
  <1>1. CASE a \in DOMAIN events /\ b \in DOMAIN events
    BY <1>1, Growth DEF InTime
  <1>2. CASE a \in DOMAIN events /\ b \in Fresh
    BY <1>2, Growth
  <1>3. CASE a \in Fresh /\ b \in Fresh
    BY <1>3
  <1>4. CASE a \in Fresh /\ b \in DOMAIN events
    BY <1>4, Growth
  <1> QED BY <1>1, <1>2, <1>3, <1>4, Growth

(* A row either stays, with its trail, or gets a version nobody has seen   *)
(* or, an invitation, is no longer pending.                                *)
NameMoves ==
    \/ UNCHANGED organization /\ Renames' = Renames
    \/ organization'.version > organization.version
MemberMoves(u) ==
    \/ members'[u] = members[u] /\ About(u)' = About(u)
    \/ members'[u].version > members[u].version
InvitationMoves(k) ==
    \/ invitations'[k] = invitations[k] /\ InvitationEvents(k)' = InvitationEvents(k)
    \/ invitations'[k].status # "PENDING"
Moves ==
    /\ NameMoves /\ \A u \in Users : MemberMoves(u)
    /\ \A k \in DOMAIN invitations : InvitationMoves(k)

(* What a request has seen stays seen: its row moves on, or stays with its *)
(* trail.                                                                  *)
LEMMA SawKept ==
  ASSUME IInv, IInv', Grows, Moves, NEW q \in Requests, UNCHANGED request, now'[q] = now[q],
         SawAll(q), phase[q] # "new"
  PROVE  SawAll(q)'
  <1> DEFINE m == request[q]
  <1>1. /\ m.seen \in Nat /\ m.user \in Users
        /\ organization.version \in Nat /\ organization'.version \in Nat
        /\ members[m.user].version \in Nat /\ members'[m.user].version \in Nat
    <2>1. m \in Request /\ m.user \in Users
      BY DEF IInv, TypeOK, Request, Body
    <2>2. members[m.user] \in Membership /\ members'[m.user] \in Membership
      BY <2>1 DEF IInv, TypeOK
    <2> QED BY <2>1, <2>2 DEF IInv, TypeOK, Request, Body, Organization, Membership
  <1>2. ASSUME m.kind = "RENAME"
        PROVE  /\ m.seen <= organization'.version
               /\ m.seen = organization'.version => \A n \in Renames' : events'[n].at <= now'[q]
    <2>1. /\ m.seen <= organization.version
          /\ m.seen = organization.version => \A n \in Renames : events[n].at <= now[q]
      BY <1>2 DEF SawAll
    <2>2. \A n \in Renames : events'[n] = events[n]
      BY Growth DEF Renames
    <2> QED BY <1>1, <2>1, <2>2 DEF Moves, NameMoves
  <1>3. ASSUME m.kind = "UPDATE_MEMBER"
        PROVE  /\ m.seen <= members'[m.user].version
               /\ m.seen = members'[m.user].version =>
                    \A n \in About(m.user)' : events'[n].at <= now'[q]
    <2>1. /\ m.seen <= members[m.user].version
          /\ m.seen = members[m.user].version => \A n \in About(m.user) : events[n].at <= now[q]
      BY <1>3 DEF SawAll
    <2>2. \A n \in About(m.user) : events'[n] = events[n]
      BY Growth, AboutIs
    <2> QED BY <1>1, <2>1, <2>2 DEF Moves, MemberMoves
  <1>4. ASSUME m.kind \in TokenKind \cup {"REVOKE"}, Pending(m.invitation)'
        PROVE  \A n \in InvitationEvents(m.invitation)' : events'[n].at <= now'[q]
    <2>1. m.invitation \in DOMAIN invitations
      BY <1>4 DEF IInv, PhaseFits, Fits
    <2>2. invitations'[m.invitation].status = "PENDING"
      BY <1>4 DEF Pending
    <2>3. /\ invitations'[m.invitation] = invitations[m.invitation]
          /\ InvitationEvents(m.invitation)' = InvitationEvents(m.invitation)
      BY <2>1, <2>2 DEF Moves, InvitationMoves
    <2>4. \A n \in InvitationEvents(m.invitation) : events'[n] = events[n]
      BY Growth DEF InvitationEvents
    <2>5. \A n \in InvitationEvents(m.invitation) : events[n].at <= now[q]
      BY <1>4, <2>2, <2>3 DEF SawAll, Pending
    <2> QED BY <2>3, <2>4, <2>5
  <1> QED BY <1>2, <1>3, <1>4 DEF SawAll

(* A step without an event leaves every trail as it is.                    *)
LEMMA NoNews ==
  ASSUME TypeOK, UNCHANGED <<organization, members, invitations, events>>
  PROVE  Grows /\ Fresh = {} /\ Moves
  <1>1. Grows /\ Fresh = {}
    BY DEF TypeOK, Grows, Fresh
  <1> QED BY <1>1 DEF Moves, NameMoves, MemberMoves, InvitationMoves, About, RoleEvents,
                      StatusEvents, Joined, EventsAbout, Renames, InvitationEvents

(* A step that changes neither the tables nor the trails explains them     *)
(* still.                                                                  *)
LEMMA ExplanationKept ==
  ASSUME TypeOK, TypeOK', TrailInv, UNCHANGED <<organization, members, invitations, events>>
  PROVE  AuditExplainsState' /\ RowsFit'
  <1>1. Grows /\ Fresh = {} /\ events \in Seq(Event) /\ events' \in Seq(Event)
    BY NoNews DEF TypeOK
  <1>2. (\A u \in Users : MemberExplained(u)) /\ (\A k \in DOMAIN invitations : InvitationExplained(k))
        /\ NameExplained /\ InTime
    BY <1>1, AuditParts DEF TrailInv, Parts
  <1>3. \A u \in Users : MemberExplained(u)'
    BY <1>1, <1>2, MemberKept
  <1>4. \A k \in DOMAIN invitations' : InvitationExplained(k)' /\ InvitationEvents(k)' # {}
    BY <1>1, <1>2, InvitationKept DEF TrailInv, RowsFit
  <1>5. NameExplained' /\ InTime'
    BY <1>1, <1>2, NameKept DEF InTime
  <1>6. RowsFit'
    BY <1>4 DEF TrailInv, RowsFit, Member
  <1>7. AuditExplainsState'
    BY <1>1, <1>3, <1>4, <1>5, AuditPartsNext DEF Parts
  <1> QED BY <1>6, <1>7

(* A step that writes no membership, invitation, name or event.            *)
LEMMA QuietAudit ==
  ASSUME IInv, IInv', TrailInv, UNCHANGED <<organization, members, invitations, events, request>>,
         clock <= clock',
         \A q \in Requests :
            /\ phase[q] \in {"deliver", "done"} => phase'[q] \in {"deliver", "done"}
            /\ \/ now'[q] = now[q] /\ (phase'[q] # "new" => phase[q] # "new")
               \/ now'[q] = clock /\ CanSend(request[q])
            /\ phase'[q] = "commit" /\ request[q].kind = "RENAME" =>
                phase[q] = "commit" \/ request[q].seen = organization.version
            /\ phase'[q] = "commit" /\ request[q].kind = "UPDATE_MEMBER" =>
                \/ phase[q] = "commit" /\ loaded'[q] = loaded[q]
                \/ request[q].seen = loaded'[q].version
  PROVE  TrailInv'
  <1> USE DEF TrailInv
  <1>1. TypeOK /\ TypeOK' /\ clock \in Nat /\ clock' \in Nat
    BY TimeAssumption DEF IInv, TypeOK
  <1>2. AuditExplainsState' /\ RowsFit'
    BY <1>1, ExplanationKept
  <1>3. EventsFit'
    <2>1. \A n \in DOMAIN events : events[n].at \in Nat /\ events[n].by \in Requests
      <3>1. \A n \in DOMAIN events : events[n] \in Event
        BY <1>1 DEF TypeOK
      <3> QED BY <3>1 DEF Event
    <2> QED BY <1>1, <2>1 DEF EventsFit
  <1>4. SeenInOrder'
    <2> SUFFICES ASSUME NEW q \in Requests
                 PROVE  /\ now'[q] <= clock'
                        /\ phase'[q] # "new" => SawAll(q)'
                        /\ phase'[q] = "commit" /\ request'[q].kind = "RENAME" =>
                                request'[q].seen = organization'.version
                        /\ phase'[q] = "commit" /\ request'[q].kind = "UPDATE_MEMBER" =>
                                request'[q].seen = loaded'[q].version
      BY DEF SeenInOrder
    <2>1. now'[q] <= clock'
      <3>1. now[q] \in Nat /\ now[q] <= clock
        BY DEF SeenInOrder, IInv, TypeOK
      <3> QED BY <1>1, <3>1
    <2>2. ASSUME phase'[q] # "new" PROVE SawAll(q)'
      <3>1. CASE now'[q] = now[q] /\ phase[q] # "new"
        BY <1>1, <3>1, NoNews, SawKept DEF SeenInOrder
      <3>2. CASE now'[q] = clock /\ CanSend(request[q])
        <4>1. \A n \in DOMAIN events' : events'[n].at <= now'[q]
          BY <3>2 DEF EventsFit
        <4>2. /\ Renames' \subseteq DOMAIN events' /\ \A u : About(u)' \subseteq DOMAIN events'
              /\ \A k : InvitationEvents(k)' \subseteq DOMAIN events'
          BY DEF Renames, About, RoleEvents, StatusEvents, Joined, EventsAbout, InvitationEvents
        <4>3. VersionSeen(request[q])
          BY <3>2 DEF CanSend
        <4> QED BY <4>1, <4>2, <4>3 DEF SawAll, VersionSeen
      <3> QED BY <2>2, <3>1, <3>2
    <2> QED BY <2>1, <2>2 DEF SeenInOrder
  <1> QED BY <1>2, <1>3, <1>4

(* The steps that commit nothing.                                          *)
LEMMA UnwrittenAudit ==
  ASSUME IInv, IInv', TrailInv, NEW r \in Requests,
         \/ Arrive(r) \/ Authenticate(r) \/ LockOrganization(r) \/ Recheck(r)
         \/ LockInvitation(r) \/ Check(r) \/ Deliver(r) \/ Rollback(r)
  PROVE  TrailInv'
  <1> USE DEF Goto, GotoHolding, Refuse, Finish
  <1>1. /\ TypeOK /\ clock \in Nat /\ request[r].kind \in Kind
    BY TimeAssumption DEF IInv, TypeOK, Request, Body
  <1>2. UNCHANGED <<clock, tables, request>>
    BY DEF Arrive, Authenticate, LockOrganization, Recheck, LockInvitation, Check, Deliver, Rollback
  <1>3. UNCHANGED <<organization, members, invitations, events, request>> /\ clock <= clock'
    BY <1>1, <1>2, TablesKept
  <1>4. \A q \in Requests \ {r} :
            phase'[q] = phase[q] /\ now'[q] = now[q] /\ loaded'[q] = loaded[q]
    BY <1>1 DEF TypeOK, Arrive, Authenticate, LockOrganization, Recheck, LockInvitation, Check,
                Deliver, Rollback
  <1>5. CASE Arrive(r)
    <2>1. /\ phase[r] = "new" /\ now'[r] = clock /\ CanSend(request[r]) /\ phase'[r] # "commit"
      BY <1>1, <1>5 DEF Arrive, TypeOK, Kind, AdminKind, TokenKind
    <2> QED BY <1>3, <1>4, <2>1, QuietAudit
  <1>6. CASE ~Arrive(r)
    <2>1. /\ phase[r] \notin {"new", "done"} /\ now'[r] = now[r]
          /\ phase[r] = "deliver" => phase'[r] = "done"
      BY <1>1, <1>6 DEF TypeOK, Authenticate, LockOrganization, Recheck, LockInvitation, Check,
                  Deliver, Rollback
    <2>2. ASSUME phase'[r] = "commit", request[r].kind \in {"RENAME", "UPDATE_MEMBER"}
          PROVE  phase[r] = "checks" /\ Check(r) /\ ServiceAllows(r)
      BY <1>1, <1>6, <2>2 DEF TypeOK, Authenticate, LockOrganization, Recheck, LockInvitation, Check,
                  Deliver, Rollback
    <2>3. phase'[r] = "commit" /\ request[r].kind = "RENAME" =>
                request[r].seen = organization.version
      BY <2>2 DEF ServiceAllows
    <2>4. phase'[r] = "commit" /\ request[r].kind = "UPDATE_MEMBER" =>
                request[r].seen = loaded'[r].version
      BY <1>1, <2>2 DEF ServiceAllows, Check, TypeOK
    <2> QED BY <1>3, <1>4, <2>1, <2>3, <2>4, QuietAudit
  <1> QED BY <1>5, <1>6

(* A commit under the organization's lock, once its tables are explained.  *)
LEMMA HolderAudit ==
  ASSUME IInv, IInv', TrailInv, NEW r \in Requests, phase[r] = "commit", request[r].kind # "SIGN_UP",
         UNCHANGED <<clock, request, now, loaded>>, phase'[r] \in {"deliver", "done"},
         \A q \in Requests \ {r} : phase'[q] = phase[q],
         Grows, Moves, Len(invitations) <= Len(invitations'),
         \A n \in Fresh : /\ events'[n].at = now[r] /\ events'[n].by = r
                          /\ events'[n].invitation <= Len(invitations'),
         Parts', RowsFit'
  PROVE  TrailInv'
  <1> USE DEF TrailInv
  <1>1. /\ TypeOK /\ TypeOK' /\ now[r] \in Nat /\ now[r] <= clock /\ clock \in Nat
        /\ Len(invitations) \in Nat /\ Len(invitations') \in Nat
    BY TimeAssumption DEF IInv, TypeOK, SeenInOrder
  <1>2. AuditExplainsState'
    BY <1>1, AuditPartsNext
  <1>3. EventsFit'
    <2>1. \A n \in DOMAIN events : events[n].by \in Requests /\ events[n].invitation \in Nat
      <3>1. \A n \in DOMAIN events : events[n] \in Event
        BY <1>1 DEF TypeOK
      <3> QED BY <3>1 DEF Event
    <2> SUFFICES ASSUME NEW n \in DOMAIN events'
                 PROVE  /\ events'[n].at <= clock'
                        /\ phase'[events'[n].by] \in {"deliver", "done"}
                        /\ events'[n].invitation <= Len(invitations')
      BY DEF EventsFit
    <2>2. CASE n \in DOMAIN events
      <3>1. /\ events[n].at <= clock /\ phase[events[n].by] \in {"deliver", "done"}
            /\ events[n].invitation <= Len(invitations)
        BY <2>2 DEF EventsFit
      <3>2. events[n].by # r /\ events'[n] = events[n]
        BY <2>2, <3>1, Growth
      <3> QED BY <1>1, <2>1, <2>2, <3>1, <3>2
    <2>3. CASE n \in Fresh
      BY <1>1, <2>3
    <2> QED BY <2>2, <2>3, Growth
  <1>4. SeenInOrder'
    <2>1. Guarded(r)
      BY DEF Guarded
    <2>2. \A q \in Requests \ {r} : ~Guarded(q)'
      BY <2>1, OnlyHolder
    <2>3. \A q \in Requests : now[q] <= clock /\ (phase[q] # "new" => SawAll(q))
      BY DEF SeenInOrder
    <2>4. \A q \in Requests : phase[q] # "new" => SawAll(q)'
      BY <2>3, SawKept
    <2>5. \A q \in Requests : phase'[q] = "commit" => request'[q].kind = "SIGN_UP"
      BY <2>2 DEF Guarded
    <2>6. \A q \in Requests : phase'[q] # "new" => phase[q] # "new"
      OBVIOUS
    <2>7. \A q \in Requests : phase'[q] # "new" => SawAll(q)'
      BY <2>4, <2>6
    <2> QED BY <2>3, <2>5, <2>7 DEF SeenInOrder
  <1> QED BY <1>2, <1>3, <1>4

(* A commit that fails in a constraint, or that has nothing to change.     *)
LEMMA EmptyCommit ==
  ASSUME IInv, IInv', TrailInv, NEW r \in Requests, phase[r] = "commit", NEW answer, Finish(r, answer),
         UNCHANGED <<clock, request, now, loaded>>,
         UNCHANGED <<organization, members, invitations, events>>
  PROVE  TrailInv'
  <1>1. TypeOK /\ clock \in Nat
    BY TimeAssumption DEF IInv, TypeOK
  <1>2. phase'[r] = "done" /\ \A q \in Requests \ {r} : phase'[q] = phase[q]
    BY <1>1 DEF Finish, TypeOK
  <1> QED BY <1>1, <1>2, QuietAudit

(* Whose number an event carries.                                          *)
LEMMA EventFits ==
  ASSUME TypeOK, NEW n \in DOMAIN events
  PROVE  /\ events[n] \in Event /\ events[n].at \in Nat /\ events[n].invitation \in Nat
         /\ events[n].user \in Users /\ events[n].type \in EventType /\ events[n].by \in Requests
  <1>1. events[n] \in Event
    BY DEF TypeOK
  <1> QED BY <1>1 DEF Event

(* Memberships and invitations stay filled or empty.                       *)
LEMMA RowsStillFit ==
  ASSUME Grows, RowsFit, DOMAIN invitations' = DOMAIN invitations,
         \A u \in Users : members'[u] = members[u] \/ members'[u].status # "ABSENT"
  PROVE  RowsFit'
  <1>1. \A k \in DOMAIN invitations' : InvitationEvents(k)' # {}
    BY TrailGrows DEF RowsFit
  <1>2. \A u \in Users : ~Member(u)' => members'[u] = NoMembership
    BY DEF RowsFit, Member
  <1> QED BY <1>1, <1>2 DEF RowsFit

(* A new name is the latest event's, and one version more.                 *)
LEMMA RenameAudit ==
  ASSUME IInv, IInv', TrailInv, NEW r \in Requests, phase[r] = "commit", Rename(r),
         UNCHANGED <<clock, request, now, loaded>>
  PROVE  TrailInv'
  <1> DEFINE m == request[r]
             event == [EventOf(r, "ORGANIZATION_RENAMED", m.actor, m.actor) EXCEPT !.name = m.name]
             e == EventRow(r, "ORGANIZATION_RENAMED", m.actor, m.actor, 0, m.name, "MEMBER")
             new == Len(events) + 1
  <1>1. m.kind = "RENAME" /\ m.actor \in Users /\ m.name \in Names /\ TypeOK /\ events \in Seq(Event)
        /\ now[r] \in Nat
    BY DEF Rename, IInv, TypeOK, Request, Body
  <1>2. UNCHANGED <<members, accounts, invitations>> /\ Finish(r, "ok")
    BY DEF Rename
  <1>3. CASE UNCHANGED <<organization, events>>
    BY <1>2, <1>3, EmptyCommit
  <1>4. CASE /\ organization' = [name |-> m.name, version |-> organization.version + 1]
             /\ events' = Append(events, event)
    <2>1. event = e
      <3> DEFINE base == EventRow(r, "ORGANIZATION_RENAMED", m.actor, m.actor, 0,
                                  organization.name, "MEMBER")
      <3>1. event = [base EXCEPT !.name = m.name]
        BY DEF EventOf, EventRow
      <3> QED BY <3>1 DEF EventRow
    <2>2. e \in Event
      BY <1>1, EventRowType DEF EventType, Roles
    <2>3. /\ e.type = "ORGANIZATION_RENAMED" /\ e.invitation = 0 /\ e.name = m.name
          /\ e.at = now[r] /\ e.by = r
      BY DEF EventRow
    <2> HIDE DEF e, event
    <2>4. Grows /\ Fresh = {new} /\ events'[new] = e
      BY <1>1, <1>4, <2>1, <2>2, OneMore
    <2>5. e.type \notin MemberTypes
      BY <2>3 DEF MemberTypes
    <2>6. (\A u \in Users : MemberExplained(u)) /\ (\A k \in DOMAIN invitations : InvitationExplained(k))
          /\ NameExplained /\ InTime /\ RowsFit
      BY <1>1, AuditParts DEF TrailInv, Parts
    <2>7. \A u \in Users : MemberExplained(u)' /\ About(u)' = About(u)
      BY <1>2, <2>4, <2>5, <2>6, MemberKept
    <2>8. \A k \in DOMAIN invitations : k # 0
      BY <1>1 DEF TypeOK
    <2>9. \A k \in DOMAIN invitations :
            InvitationExplained(k)' /\ InvitationEvents(k)' = InvitationEvents(k)
      BY <1>2, <2>3, <2>4, <2>6, <2>8, InvitationKept DEF RowsFit
    <2>10. Renames' = Renames \cup {new} /\ Renames \subseteq DOMAIN events
      BY <2>3, <2>4, TrailGrows DEF Renames
    <2>11. organization.version \in Nat /\ Cardinality(Renames) \in Nat
      <3>1. IsFiniteSet(Renames)
        BY <1>1, TrailInEvents, FS_Subset
      <3> QED BY <3>1, FS_CardinalityType, OrganizationType
    <2>12. NameExplained'
      <3>1. Cardinality(Renames') = Cardinality(Renames) + 1 /\ Latest(Renames') = new
        BY <2>4, <2>10, OneMoreEvent, LatestNew
      <3>2. organization'.version = organization.version + 1 /\ organization'.name = m.name
        BY <1>4
      <3>3. organization.version = 1 + Cardinality(Renames)
        BY <2>6 DEF NameExplained
      <3> QED BY <2>3, <2>4, <2>10, <2>11, <3>1, <3>2, <3>3 DEF NameExplained
    <2>13. InTime'
      <3>1. \A n \in Renames : events[n].at <= now[r]
        BY <1>1 DEF TrailInv, SeenInOrder, SawAll
      <3>2. \A a \in DOMAIN events : SameSubject(events[a], e) => a \in Renames
        BY <2>3, <2>5 DEF SameSubject, Renames
      <3> QED BY <1>1, <2>3, <2>4, <2>6, <3>1, <3>2, TimeKept
    <2>14. Parts'
      BY <1>2, <2>7, <2>9, <2>12, <2>13 DEF Parts
    <2>15. RowsFit'
      BY <1>2, <2>4, <2>6, RowsStillFit
    <2>16. Moves
      BY <1>2, <1>4, <2>7, <2>9, <2>11 DEF Moves, NameMoves, MemberMoves, InvitationMoves
    <2>17. Len(invitations) \in Nat /\ Len(invitations') = Len(invitations)
      BY <1>1, <1>2 DEF TypeOK
    <2>18. phase'[r] = "done" /\ \A q \in Requests \ {r} : phase'[q] = phase[q]
      BY <1>1, <1>2 DEF Finish, TypeOK
    <2> QED BY <1>1, <2>3, <2>4, <2>14, <2>15, <2>16, <2>17, <2>18, HolderAudit
  <1> QED BY <1>2, <1>3, <1>4 DEF Rename

(* The new events of some types about a user.                              *)
FreshAbout(types, u) == {n \in Fresh : events'[n].type \in types /\ events'[n].user = u}

(* The trail of a member, with the new events.                             *)
LEMMA MemberTrailGrows ==
  ASSUME Grows, NEW u
  PROVE  /\ RoleEvents(u)' = RoleEvents(u) \cup
                FreshAbout({"INVITATION_ACCEPTED", "MEMBER_ROLE_CHANGED"}, u)
         /\ StatusEvents(u)' = StatusEvents(u) \cup
                FreshAbout({"INVITATION_ACCEPTED", "MEMBER_DEACTIVATED", "MEMBER_REACTIVATED"}, u)
  <1>1. ASSUME NEW types
        PROVE  EventsAbout(types, u)' = EventsAbout(types, u) \cup FreshAbout(types, u)
    BY TrailGrows DEF FreshAbout
  <1> QED BY <1>1 DEF RoleEvents, StatusEvents, Joined, FreshAbout

(* What an update's events add to the trail of its member.                 *)
UpdateTold(r, u, new) ==
    /\ Grows /\ Fresh # {}
    /\ \A n \in Fresh :
        /\ events'[n].at = now[r] /\ events'[n].by = r /\ events'[n].invitation = 0
        /\ events'[n].user = u
        /\ events'[n].type \in MemberTypes \ {"INVITATION_ACCEPTED"}
    /\ new.role = loaded[r].role => RoleEvents(u)' = RoleEvents(u)
    /\ new.role # loaded[r].role => \E n \in Fresh :
           RoleEvents(u)' = RoleEvents(u) \cup {n} /\ events'[n].role = new.role
    /\ new.status = loaded[r].status => StatusEvents(u)' = StatusEvents(u)
    /\ new.status # loaded[r].status => \E n \in Fresh :
           /\ StatusEvents(u)' = StatusEvents(u) \cup {n}
           /\ events'[n].type = "MEMBER_DEACTIVATED" <=> new.status # "ACTIVE"

LEMMA UpdateTrail ==
  ASSUME TypeOK, NEW r \in Requests, NEW new, new.role \in Roles,
         events' = events \o MemberEvents(r, new),
         new.role # loaded[r].role \/ new.status # loaded[r].status,
         NEW u, u = request[r].user
  PROVE  UpdateTold(r, u, new)
  <1> DEFINE a == RoleRow(r, new)
             b == StatusRow(r, new)
             k == Len(events)
  <1>1. /\ a.at = now[r] /\ a.by = r /\ a.invitation = 0 /\ a.user = u /\ a.role = new.role
        /\ a.type = "MEMBER_ROLE_CHANGED"
    BY DEF RoleRow, EventRow
  <1>2. /\ b.at = now[r] /\ b.by = r /\ b.invitation = 0 /\ b.user = u
        /\ b.type = IF new.status = "ACTIVE" THEN "MEMBER_REACTIVATED" ELSE "MEMBER_DEACTIVATED"
    BY DEF StatusRow, EventRow
  <1> HIDE DEF a, b
  <1>3. /\ events \in Seq(Event) /\ events' \in Seq(Event) /\ k \in Nat
        /\ \A n \in 1..k : events'[n] = events[n]
        /\ \/ /\ new.role # loaded[r].role /\ new.status = loaded[r].status
              /\ Len(events') = k + 1 /\ events'[k + 1] = a
           \/ /\ new.role = loaded[r].role /\ new.status # loaded[r].status
              /\ Len(events') = k + 1 /\ events'[k + 1] = b
           \/ /\ new.role # loaded[r].role /\ new.status # loaded[r].status
              /\ Len(events') = k + 2 /\ events'[k + 1] = a /\ events'[k + 2] = b
    BY UpdateEvents DEF a, b
  <1>4. Grows
    BY <1>3 DEF Grows
  <1>5. /\ RoleEvents(u)' = RoleEvents(u) \cup
                FreshAbout({"INVITATION_ACCEPTED", "MEMBER_ROLE_CHANGED"}, u)
        /\ StatusEvents(u)' = StatusEvents(u) \cup
                FreshAbout({"INVITATION_ACCEPTED", "MEMBER_DEACTIVATED", "MEMBER_REACTIVATED"}, u)
    BY <1>4, MemberTrailGrows
  <1>6. CASE /\ new.role # loaded[r].role /\ new.status = loaded[r].status
             /\ Len(events') = k + 1 /\ events'[k + 1] = a
    <2>1. Fresh = {k + 1}
      BY <1>3, <1>6 DEF Fresh
    <2> QED BY <1>1, <1>4, <1>5, <1>6, <2>1 DEF MemberTypes, FreshAbout, UpdateTold
  <1>7. CASE /\ new.role = loaded[r].role /\ new.status # loaded[r].status
             /\ Len(events') = k + 1 /\ events'[k + 1] = b
    <2>1. Fresh = {k + 1}
      BY <1>3, <1>7 DEF Fresh
    <2> QED BY <1>2, <1>4, <1>5, <1>7, <2>1 DEF MemberTypes, FreshAbout, UpdateTold
  <1>8. CASE /\ new.role # loaded[r].role /\ new.status # loaded[r].status
             /\ Len(events') = k + 2 /\ events'[k + 1] = a /\ events'[k + 2] = b
    <2>1. Fresh = {k + 1, k + 2}
      BY <1>3, <1>8 DEF Fresh
    <2>2. /\ RoleEvents(u)' = RoleEvents(u) \cup {k + 1}
          /\ StatusEvents(u)' = StatusEvents(u) \cup {k + 2}
      BY <1>1, <1>2, <1>5, <1>8, <2>1 DEF FreshAbout
    <2>3. Fresh # {} /\ \A n \in Fresh :
             /\ events'[n].at = now[r] /\ events'[n].by = r /\ events'[n].invitation = 0
             /\ events'[n].user = u
             /\ events'[n].type \in MemberTypes \ {"INVITATION_ACCEPTED"}
      BY <1>1, <1>2, <1>8, <2>1 DEF MemberTypes
    <2> QED BY <1>1, <1>2, <1>4, <1>8, <2>1, <2>2, <2>3 DEF UpdateTold
  <1> QED BY <1>3, <1>6, <1>7, <1>8

(* A trail has finitely many authors.                                      *)
LEMMA AuthorsAreFinite ==
  ASSUME TypeOK, NEW S \in SUBSET (DOMAIN events)
  PROVE  /\ IsFiniteSet({events[n].by : n \in S})
         /\ Cardinality({events[n].by : n \in S}) \in Nat
  <1> DEFINE A == {events[n].by : n \in S}
             by == [n \in S |-> events[n].by]
  <1>1. IsFiniteSet(S)
    <2>1. DOMAIN events = 1..Len(events) /\ IsFiniteSet(1..Len(events))
      BY FS_Interval DEF TypeOK
    <2> QED BY <2>1, FS_Subset
  <1>2. by \in Surjection(S, A)
    BY DEF Surjection
  <1> QED BY <1>1, <1>2, FS_Surjection, FS_CardinalityType

(* The memberships an organization begins with.                            *)
LEMMA SeedVersions ==
  ASSUME NEW u \in Users
  PROVE  Seed[u] \in Membership /\ Seed[u].version \in Nat
  <1>1. Seed \in [Users -> Membership]
    BY SeedAssumption DEF Membership, NoMembership, NewMembership, Roles
  <1> QED BY <1>1 DEF Membership

(* The one commit that may write two events counts one version.            *)
LEMMA UpdateMemberAudit ==
  ASSUME IInv, IInv', TrailInv, NEW r \in Requests, phase[r] = "commit", UpdateMember(r),
         UNCHANGED <<clock, request, now, loaded>>
  PROVE  TrailInv'
  <1> PICK u : u = request[r].user
    OBVIOUS
  <1> DEFINE m == request[r]
             old == loaded[r]
             new == UpdatedMember(m, old)
             row == [new EXCEPT !.version = old.version + 1]
  <1>1. /\ m.kind = "UPDATE_MEMBER" /\ u \in Users /\ u = m.user
        /\ m.role \in Roles \cup {Unchanged} /\ m.status \in {"ACTIVE", "ARCHIVED", Unchanged}
        /\ TypeOK /\ events \in Seq(Event) /\ now[r] \in Nat
    BY DEF UpdateMember, IInv, TypeOK, Request, Body
  <1>2. old = members[u] /\ old \in Membership /\ old.status # "ABSENT"
    BY <1>1 DEF IInv, Ready, Relies, TypeOK, Member
  <1>3. new = [status |-> Given(m.status, old.status), role |-> Given(m.role, old.role),
               version |-> old.version]
    BY DEF UpdatedMember
  <1>4. new.role \in Roles /\ new.status \in {"ACTIVE", "ARCHIVED"}
    BY <1>1, <1>2, <1>3 DEF Given, Membership
  <1>5. row = [status |-> new.status, role |-> new.role, version |-> old.version + 1]
    BY <1>3
  <1>6. UNCHANGED <<organization, accounts, invitations>> /\ Finish(r, "ok")
    BY DEF UpdateMember
  <1>7. CASE UNCHANGED <<members, events>>
    BY <1>6, <1>7, EmptyCommit
  <1>8. CASE /\ new # old
             /\ members' = [members EXCEPT ![u] = row]
             /\ events' = events \o MemberEvents(r, new)
    <2>1. new.role # old.role \/ new.status # old.status
      <3>1. old = [status |-> old.status, role |-> old.role, version |-> old.version]
        BY <1>2 DEF Membership
      <3>2. new = [status |-> new.status, role |-> new.role, version |-> old.version]
        BY <1>3
      <3> HIDE DEF new, old
      <3> QED BY <1>8, <3>1, <3>2
    <2>2. /\ members'[u] = [status |-> new.status, role |-> new.role, version |-> old.version + 1]
          /\ \A v \in Users \ {u} : members'[v] = members[v]
      <3> HIDE DEF row, new
      <3> QED BY <1>1, <1>5, <1>8 DEF TypeOK
    <2> HIDE DEF new, row
    <2>3. /\ Grows /\ Fresh # {}
          /\ \A n \in Fresh :
             /\ events'[n].at = now[r] /\ events'[n].by = r /\ events'[n].invitation = 0
             /\ events'[n].user = u
             /\ events'[n].type \in MemberTypes \ {"INVITATION_ACCEPTED"}
          /\ new.role = old.role => RoleEvents(u)' = RoleEvents(u)
          /\ new.role # old.role => \E n \in Fresh :
                RoleEvents(u)' = RoleEvents(u) \cup {n} /\ events'[n].role = new.role
          /\ new.status = old.status => StatusEvents(u)' = StatusEvents(u)
          /\ new.status # old.status => \E n \in Fresh :
                /\ StatusEvents(u)' = StatusEvents(u) \cup {n}
                /\ events'[n].type = "MEMBER_DEACTIVATED" <=> new.status # "ACTIVE"
      <3>1. UpdateTold(r, u, new)
        BY <1>1, <1>4, <1>8, <2>1, UpdateTrail
      <3> QED BY <3>1 DEF UpdateTold
    <2>4. (\A v \in Users : MemberExplained(v)) /\ (\A k \in DOMAIN invitations : InvitationExplained(k))
          /\ NameExplained /\ InTime /\ RowsFit /\ EventsFit
      BY <1>1, AuditParts DEF TrailInv, Parts
    <2>5. \A v \in Users \ {u} : MemberExplained(v)' /\ About(v)' = About(v)
      BY <2>2, <2>3, <2>4, MemberKept
    <2>6. \A k \in DOMAIN invitations : k # 0
      BY <1>1 DEF TypeOK
    <2>7. \A k \in DOMAIN invitations :
            InvitationExplained(k)' /\ InvitationEvents(k)' = InvitationEvents(k)
      BY <1>6, <2>3, <2>4, <2>6, InvitationKept DEF RowsFit
    <2>8. NameExplained' /\ Renames' = Renames
      BY <1>6, <2>3, <2>4, NameKept DEF MemberTypes
    <2>9. About(u) \subseteq DOMAIN events /\ About(u)' = About(u) \cup Fresh
      <3>1. About(u)' = {n \in DOMAIN events' : events'[n].type \in MemberTypes /\ events'[n].user = u}
        BY DEF About, RoleEvents, StatusEvents, Joined, EventsAbout, MemberTypes
      <3> QED BY <2>3, <3>1, AboutIs, Growth
    <2>10. RoleEvents(u) \subseteq DOMAIN events /\ StatusEvents(u) \subseteq DOMAIN events
      BY DEF RoleEvents, StatusEvents, Joined, EventsAbout
    <2>11. MemberExplained(u)'
      <3>1. old = MemberFromEvents(u)
        BY <1>1, <1>2, <2>4 DEF MemberExplained
      <3>2. new.status = IF StatusEvents(u)' = {} THEN Seed[u].status
                         ELSE IF events'[Latest(StatusEvents(u)')].type = "MEMBER_DEACTIVATED"
                         THEN "ARCHIVED" ELSE "ACTIVE"
        <4>1. CASE new.status # old.status
          <5>1. PICK n \in Fresh :
                    /\ StatusEvents(u)' = StatusEvents(u) \cup {n}
                    /\ events'[n].type = "MEMBER_DEACTIVATED" <=> new.status # "ACTIVE"
            BY <2>3, <4>1
          <5>2. Latest(StatusEvents(u) \cup {n}) = n
            BY <2>3, <2>10, <5>1, LatestNew
          <5> QED BY <1>4, <5>1, <5>2
        <4>2. CASE new.status = old.status
          <5>1. StatusEvents(u)' = StatusEvents(u)
            BY <2>3, <4>2
          <5>2. StatusEvents(u) # {} =>
                    events'[Latest(StatusEvents(u))] = events[Latest(StatusEvents(u))]
            BY <2>3, <2>10, LatestKept
          <5> QED BY <3>1, <4>2, <5>1, <5>2 DEF MemberFromEvents
        <4> QED BY <4>1, <4>2
      <3>3. new.role = IF RoleEvents(u)' = {} THEN Seed[u].role
                       ELSE events'[Latest(RoleEvents(u)')].role
        <4>1. CASE new.role # old.role
          <5>1. PICK n \in Fresh :
                    RoleEvents(u)' = RoleEvents(u) \cup {n} /\ events'[n].role = new.role
            BY <2>3, <4>1
          <5>2. Latest(RoleEvents(u) \cup {n}) = n
            BY <2>3, <2>10, <5>1, LatestNew
          <5> QED BY <5>1, <5>2
        <4>2. CASE new.role = old.role
          <5>1. RoleEvents(u)' = RoleEvents(u)
            BY <2>3, <4>2
          <5>2. RoleEvents(u) # {} =>
                    events'[Latest(RoleEvents(u))] = events[Latest(RoleEvents(u))]
            BY <2>3, <2>10, LatestKept
          <5> QED BY <3>1, <4>2, <5>1, <5>2 DEF MemberFromEvents
        <4> QED BY <4>1, <4>2
      <3>4. old.version + 1 = Seed[u].version + Cardinality({events'[n].by : n \in About(u)'})
        <4>1. \A n \in About(u) : events[n].by # r
          BY <2>4, <2>9 DEF EventsFit
        <4>2. Cardinality({events'[n].by : n \in About(u)'})
                = Cardinality({events[n].by : n \in About(u)}) + 1
          <5>1. Cardinality(AuthorsNow(About(u) \cup Fresh)) = Cardinality(Authors(About(u))) + 1
            <6>1. \A n \in Fresh : events'[n].by = r
              BY <2>3
            <6>2. About(u) \in SUBSET (DOMAIN events) /\ Fresh \in SUBSET Fresh
              BY <2>9
            <6>3. Grows /\ Fresh # {}
              BY <2>3
            <6> HIDE DEF m, old
            <6> QED BY <4>1, <6>1, <6>2, <6>3, OneMoreAuthor
          <5>2. AuthorsNow(About(u) \cup Fresh) = AuthorsNow(About(u)')
            BY <2>9
          <5> QED BY <5>1, <5>2 DEF Authors, AuthorsNow
        <4>3. old.version = Seed[u].version + Cardinality({events[n].by : n \in About(u)})
          BY <3>1 DEF MemberFromEvents, About
        <4>4. Cardinality({events[n].by : n \in About(u)}) \in Nat /\ Seed[u].version \in Nat
          BY <1>1, <2>9, AuthorsAreFinite, SeedVersions
        <4> QED BY <4>2, <4>3, <4>4
      <3> QED BY <2>2, <3>2, <3>3, <3>4 DEF MemberExplained, MemberFromEvents, About
    <2>12. InTime'
      <3>1. \A n \in About(u) : events[n].at <= now[r]
        BY <1>1, <1>2 DEF TrailInv, SeenInOrder, SawAll
      <3>2. \A a \in DOMAIN events, b \in Fresh : SameSubject(events[a], events'[b]) => a \in About(u)
        BY <2>3, AboutIs DEF SameSubject, MemberTypes
      <3> QED BY <1>1, <2>3, <2>4, <3>1, <3>2, TimeKept
    <2>13. Parts'
      BY <1>6, <2>5, <2>7, <2>8, <2>11, <2>12 DEF Parts
    <2>14. RowsFit'
      <3>1. members'[u].status # "ABSENT"
        BY <1>4, <2>2
      <3> QED BY <1>6, <2>2, <2>3, <2>4, <3>1, RowsStillFit
    <2>15. Moves
      <3>1. members'[u].version > members[u].version
        BY <1>2, <2>2 DEF Membership
      <3> QED BY <1>6, <2>2, <2>5, <2>7, <2>8, <3>1 DEF Moves, NameMoves, MemberMoves, InvitationMoves
    <2>16. /\ Len(invitations) \in Nat /\ Len(invitations') = Len(invitations)
           /\ \A n \in Fresh : events'[n].invitation <= Len(invitations')
      BY <1>1, <1>6, <2>3 DEF TypeOK
    <2>17. phase'[r] = "done" /\ \A q \in Requests \ {r} : phase'[q] = phase[q]
      BY <1>1, <1>6 DEF Finish, TypeOK
    <2> QED BY <1>1, <2>3, <2>13, <2>14, <2>15, <2>16, <2>17, HolderAudit
  <1> QED BY <1>7, <1>8 DEF UpdateMember

(* One event about an invitation, its number and its place in the trail.   *)
Tells(e, r, type, u, n, role) ==
    /\ e.type = type /\ e.user = u /\ e.invitation = n /\ e.role = role
    /\ e.at = now[r] /\ e.by = r

(* An event about an invitation tells nothing of members or names.         *)
LEMMA InvitationNews ==
  ASSUME TypeOK, NEW r \in Requests, NEW type \in EventType, NEW actor \in Users,
         NEW u \in Users, NEW n \in Nat, NEW role \in Roles,
         events' = Append(events, InvitationEvent(r, type, actor, n, u, role))
  PROVE  /\ Grows /\ Fresh = {Len(events) + 1}
         /\ Tells(events'[Len(events) + 1], r, type, u, n, role)
  <1> DEFINE e == InvitationEvent(r, type, actor, n, u, role)
  <1>1. e = EventRow(r, type, actor, u, n, organization.name, role) /\ e \in Event
    BY InvitationEventRow
  <1>2. Tells(e, r, type, u, n, role)
    BY <1>1 DEF EventRow, Tells
  <1> HIDE DEF e
  <1>3. events \in Seq(Event) /\ events' = Append(events, e)
    BY DEF TypeOK, e
  <1> QED BY <1>1, <1>2, <1>3, OneMore

(* A new invitation begins its own trail.                                  *)
LEMMA InviteAudit ==
  ASSUME IInv, IInv', TrailInv, NEW r \in Requests, phase[r] = "commit", Invite(r),
         UNCHANGED <<clock, request, now, loaded>>
  PROVE  TrailInv'
  <1> DEFINE m == request[r]
             n == Len(invitations) + 1
             new == Len(events) + 1
             row == [user |-> m.user, role |-> m.role, status |-> "PENDING", version |-> 1,
                     createdAt |-> now[r], expiresAt |-> now[r] + InvitationSeconds, by |-> r]
             e == events'[new]
  <1>1. /\ m.kind = "INVITE" /\ m.user \in Users /\ m.actor \in Users /\ m.role \in Roles
        /\ TypeOK /\ invitations \in Seq(Invitation) /\ now[r] \in Nat
    BY DEF Invite, IInv, TypeOK, Request, Body
  <1>2. \A k \in DOMAIN invitations : invitations[k].user = m.user => ~Pending(k)
    BY <1>1 DEF IInv, Ready, Relies
  <1>3. /\ invitations' = Append(invitations, row)
        /\ events' = Append(events, InvitationEvent(r, "INVITATION_CREATED", m.actor, n, m.user, m.role))
        /\ phase' = [phase EXCEPT ![r] = "deliver"]
        /\ UNCHANGED <<organization, members, accounts>>
    BY <1>2 DEF Invite
  <1>4. n \in Nat /\ Len(invitations) \in Nat
    BY <1>1
  <1>5. Grows /\ Fresh = {new} /\ Tells(e, r, "INVITATION_CREATED", m.user, n, m.role)
    BY <1>1, <1>3, <1>4, InvitationNews DEF EventType
  <1>6. /\ row.status = "PENDING" /\ row.version = 1
    OBVIOUS
  <1> HIDE DEF row
  <1>7. /\ n \notin DOMAIN invitations /\ DOMAIN invitations' = DOMAIN invitations \cup {n}
        /\ Len(invitations') = n
        /\ invitations'[n] = row /\ \A k \in DOMAIN invitations : invitations'[k] = invitations[k]
    BY <1>1, <1>3
  <1>8. /\ e.type = "INVITATION_CREATED" /\ e.invitation = n /\ e.at = now[r] /\ e.by = r
        /\ e.type \notin MemberTypes
    BY <1>5 DEF Tells, MemberTypes
  <1> HIDE DEF e, new
  <1>9. (\A u \in Users : MemberExplained(u)) /\ (\A k \in DOMAIN invitations : InvitationExplained(k))
          /\ NameExplained /\ InTime /\ RowsFit /\ EventsFit
    BY <1>1, AuditParts DEF TrailInv, Parts, TypeOK
  <1>10. \A u \in Users : MemberExplained(u)' /\ About(u)' = About(u)
    BY <1>3, <1>5, <1>8, <1>9, MemberKept DEF e
  <1>11. \A k \in DOMAIN invitations :
            InvitationExplained(k)' /\ InvitationEvents(k)' = InvitationEvents(k)
    BY <1>5, <1>7, <1>8, <1>9, InvitationKept DEF RowsFit, e
  <1>12. NameExplained' /\ Renames' = Renames
    BY <1>3, <1>5, <1>8, <1>9, NameKept DEF e
  <1>13. InvitationEvents(n) = {}
    <2>1. \A a \in DOMAIN events : events[a].invitation # n
      BY <1>1, <1>4, <1>9, EventFits DEF EventsFit
    <2> QED BY <2>1 DEF InvitationEvents
  <1>14. {a \in DOMAIN events' : events'[a].invitation = n} = {new}
    BY <1>5, <1>8, <1>13, Growth DEF InvitationEvents, e
  <1>15. /\ invitations'[n].status = "PENDING"
         /\ invitations'[n].version = Cardinality({new})
         /\ Latest({new}) = new
    <2>1. new \in Fresh
      BY <1>5
    <2>2. Latest({} \cup {new}) = new
      BY <1>5, <2>1, LatestNew
    <2> QED BY <1>6, <1>7, <2>2, FS_Singleton
  <1>16. InTime'
    <2>1. \A a \in DOMAIN events : ~SameSubject(events[a], e)
      BY <1>8, <1>13 DEF SameSubject, InvitationEvents
    <2> QED BY <1>1, <1>5, <1>8, <1>9, <2>1, TimeKept DEF e
  <1>17. \A k \in DOMAIN invitations' : InvitationExplained(k)' /\ InvitationEvents(k)' # {}
    <2>1. ASSUME NEW k, k = n PROVE InvitationExplained(k)' /\ InvitationEvents(k)' # {}
      <3>1. InvitationEvents(k)' = {new}
        BY <1>14, <2>1 DEF InvitationEvents
      <3>2. events'[new].type = "INVITATION_CREATED"
        BY <1>8 DEF e
      <3> QED BY <1>15, <2>1, <3>1, <3>2 DEF InvitationExplained, InvitationFromEvents
    <2>2. ASSUME NEW k \in DOMAIN invitations
          PROVE  InvitationExplained(k)' /\ InvitationEvents(k)' # {}
      BY <1>9, <1>11, <2>2 DEF RowsFit
    <2> QED BY <1>7, <2>1, <2>2
  <1>18. Parts'
    BY <1>10, <1>12, <1>16, <1>17 DEF Parts
  <1>19. RowsFit'
    BY <1>3, <1>9, <1>17 DEF RowsFit, Member
  <1>20. Moves
    BY <1>3, <1>7, <1>10, <1>11, <1>12 DEF Moves, NameMoves, MemberMoves, InvitationMoves
  <1>21. /\ Len(invitations) <= Len(invitations') /\ m.kind # "SIGN_UP"
         /\ \A k \in Fresh : /\ events'[k].at = now[r] /\ events'[k].by = r
                             /\ events'[k].invitation <= Len(invitations')
    BY <1>1, <1>4, <1>5, <1>7, <1>8 DEF e
  <1>22. phase'[r] = "deliver" /\ \A q \in Requests \ {r} : phase'[q] = phase[q]
    BY <1>1, <1>3 DEF TypeOK
  <1> HIDE DEF n
  <1> QED BY <1>5, <1>18, <1>19, <1>20, <1>21, <1>22, HolderAudit

(* What an event about a settled invitation says of it.                    *)
LEMMA SettledExplained ==
  ASSUME TypeOK, Grows, NEW new, Fresh = {new}, NEW n \in DOMAIN invitations,
         NEW status \in {"ACCEPTED", "REVOKED"},
         invitations' = [invitations EXCEPT ![n] = Settled(@, status)],
         events'[new].invitation = n,
         events'[new].type =
            IF status = "ACCEPTED" THEN "INVITATION_ACCEPTED" ELSE "INVITATION_REVOKED",
         RowsFit, \A k \in DOMAIN invitations : InvitationExplained(k)
  PROVE  /\ \A k \in DOMAIN invitations' : InvitationExplained(k)'
         /\ \A k \in DOMAIN invitations : InvitationMoves(k)
  <1>1. /\ DOMAIN invitations' = DOMAIN invitations
        /\ \A k \in DOMAIN invitations : k # n => invitations'[k] = invitations[k]
        /\ invitations'[n].status = status /\ invitations'[n].version = invitations[n].version + 1
    BY Settling
  <1>2. ASSUME NEW k \in DOMAIN invitations, k # n
        PROVE  InvitationExplained(k)' /\ InvitationMoves(k)
    BY <1>1, <1>2, InvitationKept DEF RowsFit, InvitationMoves
  <1>3. InvitationEvents(n) \subseteq DOMAIN events /\ InvitationEvents(n)' = InvitationEvents(n) \cup {new}
    <2>1. InvitationEvents(n)' = InvitationEvents(n) \cup {a \in Fresh : events'[a].invitation = n}
      BY TrailGrows
    <2> QED BY <2>1 DEF InvitationEvents
  <1>4. /\ Cardinality(InvitationEvents(n) \cup {new}) = Cardinality(InvitationEvents(n)) + 1
        /\ Latest(InvitationEvents(n) \cup {new}) = new
    BY <1>3, OneMoreEvent, LatestNew
  <1>5. InvitationExplained(n)'
    <2>1. invitations[n].version = Cardinality(InvitationEvents(n))
      BY DEF InvitationExplained
    <2>2. status = "ACCEPTED" \/ status = "REVOKED"
      OBVIOUS
    <2> QED BY <1>1, <1>3, <1>4, <2>1, <2>2 DEF InvitationExplained, InvitationFromEvents
  <1>6. InvitationMoves(n)
    BY <1>1 DEF InvitationMoves
  <1> QED BY <1>1, <1>2, <1>5, <1>6

(* Revoked or declined, an invitation's trail ends in the event that says  *)
(* so.                                                                     *)
LEMMA RevokeAudit ==
  ASSUME IInv, IInv', TrailInv, NEW r \in Requests, phase[r] = "commit", Revoke(r),
         UNCHANGED <<clock, request, now, loaded>>
  PROVE  TrailInv'
  <1> DEFINE m == request[r]
             new == Len(events) + 1
             e == events'[new]
  <1> PICK n : n = m.invitation
    OBVIOUS
  <1> DEFINE row == invitations[n]
  <1>1. /\ m.kind = "REVOKE" /\ m.actor \in Users /\ n \in Nat /\ n \in DOMAIN invitations /\ n # 0
        /\ Pending(n) /\ TypeOK /\ now[r] \in Nat /\ row.user \in Users /\ row.role \in Roles
    <2>1. m.kind = "REVOKE" /\ m.actor \in Users /\ n \in Nat /\ TypeOK /\ now[r] \in Nat
      BY DEF Revoke, IInv, TypeOK, Request, Body
    <2>2. n \in DOMAIN invitations /\ Pending(n)
      BY <2>1 DEF IInv, PhaseFits, Fits, Ready, Relies
    <2>3. n # 0
      BY <2>1, <2>2 DEF TypeOK
    <2> QED BY <2>1, <2>2, <2>3, InvitationType
  <1>2. /\ invitations' = [invitations EXCEPT ![n] = Settled(@, "REVOKED")]
        /\ events' = Append(events, InvitationEvent(r, "INVITATION_REVOKED", m.actor, n,
                                                    row.user, row.role))
        /\ UNCHANGED <<organization, members, accounts>> /\ Finish(r, "ok")
    BY DEF Revoke
  <1>3. Grows /\ Fresh = {new} /\ Tells(e, r, "INVITATION_REVOKED", row.user, n, row.role)
    BY <1>1, <1>2, InvitationNews DEF EventType
  <1>4. /\ e.type = "INVITATION_REVOKED" /\ e.invitation = n /\ e.at = now[r] /\ e.by = r
        /\ e.type \notin MemberTypes
    BY <1>3 DEF Tells, MemberTypes
  <1> HIDE DEF e, new
  <1>5. (\A u \in Users : MemberExplained(u)) /\ (\A k \in DOMAIN invitations : InvitationExplained(k))
          /\ NameExplained /\ InTime /\ RowsFit /\ EventsFit
    BY <1>1, AuditParts DEF TrailInv, Parts, TypeOK
  <1>6. \A u \in Users : MemberExplained(u)' /\ About(u)' = About(u)
    BY <1>2, <1>3, <1>4, <1>5, MemberKept DEF e
  <1>7. /\ \A k \in DOMAIN invitations' : InvitationExplained(k)'
        /\ \A k \in DOMAIN invitations : InvitationMoves(k)
    BY <1>1, <1>2, <1>3, <1>4, <1>5, SettledExplained DEF e
  <1>8. NameExplained' /\ Renames' = Renames
    BY <1>2, <1>3, <1>4, <1>5, NameKept DEF e
  <1>9. InTime'
    <2>1. \A a \in InvitationEvents(n) : events[a].at <= now[r]
      BY <1>1 DEF TrailInv, SeenInOrder, SawAll
    <2>2. \A a \in DOMAIN events : SameSubject(events[a], e) => a \in InvitationEvents(n)
      BY <1>4 DEF SameSubject, InvitationEvents
    <2> QED BY <1>1, <1>3, <1>4, <1>5, <2>1, <2>2, TimeKept DEF e
  <1>10. Parts'
    BY <1>2, <1>6, <1>7, <1>8, <1>9 DEF Parts
  <1>11. DOMAIN invitations' = DOMAIN invitations /\ invitations' \in Seq(Invitation)
    BY <1>1, <1>2, Settling
  <1>12. RowsFit'
    BY <1>2, <1>3, <1>5, <1>11, RowsStillFit
  <1>13. Moves
    BY <1>2, <1>6, <1>7, <1>8 DEF Moves, NameMoves, MemberMoves
  <1>14. /\ Len(invitations') = Len(invitations) /\ Len(invitations) \in Nat /\ n <= Len(invitations)
    BY <1>1, <1>11 DEF TypeOK
  <1>15. phase'[r] = "done" /\ \A q \in Requests \ {r} : phase'[q] = phase[q]
    BY <1>1, <1>2 DEF Finish, TypeOK
  <1>16. \A k \in Fresh : /\ events'[k].at = now[r] /\ events'[k].by = r
                          /\ events'[k].invitation <= Len(invitations')
    BY <1>3, <1>4, <1>14 DEF e
  <1> QED BY <1>1, <1>3, <1>10, <1>12, <1>13, <1>14, <1>15, <1>16, HolderAudit

(* Of an outsider the trail knows nothing.                                 *)
LEMMA AbsentUnwritten ==
  ASSUME TypeOK, RowsFit, NEW u \in Users, ~Member(u), MemberExplained(u)
  PROVE  About(u) = {} /\ Seed[u].version = 0
  <1>1. members[u].version = 0
    BY DEF RowsFit, NoMembership
  <1>2. members[u].version = Seed[u].version + Cardinality(Authors(About(u)))
    BY DEF MemberExplained, MemberFromEvents, Authors, About
  <1>3. About(u) \subseteq DOMAIN events
    BY AboutIs
  <1>4. /\ IsFiniteSet(Authors(About(u))) /\ Cardinality(Authors(About(u))) \in Nat
        /\ Seed[u].version \in Nat
    BY <1>3, AuthorsAreFinite, SeedVersions DEF Authors
  <1>5. Cardinality(Authors(About(u))) = 0 /\ Seed[u].version = 0
    BY <1>1, <1>2, <1>4
  <1>6. Authors(About(u)) = {}
    BY <1>4, <1>5, FS_EmptySet
  <1> QED BY <1>5, <1>6 DEF Authors

(* To accept writes one event that is in two trails, the invitation's and  *)
(* the new member's.                                                       *)
LEMMA JoinAudit ==
  ASSUME IInv, IInv', TrailInv, NEW r \in Requests, phase[r] = "commit", Join(r),
         UNCHANGED <<clock, request, now, loaded>>
  PROVE  TrailInv'
  <1> DEFINE m == request[r]
             new == Len(events) + 1
             e == events'[new]
  <1> PICK n : n = m.invitation
    OBVIOUS
  <1> DEFINE row == invitations[n]
  <1> PICK u : u = IF m.kind = "ACCEPT" THEN m.actor ELSE row.user
    OBVIOUS
  <1>1. /\ m.kind \in TokenKind /\ m.actor \in Users /\ n \in Nat /\ n \in DOMAIN invitations
        /\ n # 0 /\ TypeOK /\ now[r] \in Nat
    <2>1. m.kind \in TokenKind /\ m.actor \in Users /\ n \in Nat /\ TypeOK /\ now[r] \in Nat
      BY DEF Join, IInv, TypeOK, Request, Body
    <2>2. n \in DOMAIN invitations
      BY <2>1 DEF IInv, PhaseFits, Fits
    <2> QED BY <2>1, <2>2 DEF TypeOK
  <1>2. Pending(n) /\ u = row.user /\ u \in Users /\ row.role \in Roles /\ ~Member(u)
    BY <1>1, InvitationType DEF IInv, Ready, Relies, InvitationsAreForOutsiders
  <1>3. CASE Finish(r, "error") /\ UNCHANGED tables
    BY <1>3, TablesKept, EmptyCommit
  <1>4. CASE /\ members' = [members EXCEPT ![u] = NewMembership(row.role)]
             /\ accounts' = accounts \cup {u}
             /\ invitations' = [invitations EXCEPT ![n] = Settled(@, "ACCEPTED")]
             /\ events' = Append(events, InvitationEvent(r, "INVITATION_ACCEPTED", u, n,
                                                         row.user, row.role))
             /\ UNCHANGED organization /\ Finish(r, "ok")
    <2>1. Grows /\ Fresh = {new} /\ Tells(e, r, "INVITATION_ACCEPTED", u, n, row.role)
      BY <1>1, <1>2, <1>4, InvitationNews DEF EventType
    <2>2. /\ e.type = "INVITATION_ACCEPTED" /\ e.invitation = n /\ e.at = now[r] /\ e.by = r
          /\ e.user = u /\ e.role = row.role /\ new \in Fresh
      BY <2>1 DEF Tells
    <2> HIDE DEF e, new
    <2>3. /\ members'[u] = NewMembership(row.role)
          /\ \A v \in Users \ {u} : members'[v] = members[v]
      BY <1>1, <1>2, <1>4 DEF TypeOK
    <2>4. (\A v \in Users : MemberExplained(v)) /\ (\A k \in DOMAIN invitations : InvitationExplained(k))
            /\ NameExplained /\ InTime /\ RowsFit /\ EventsFit
      BY <1>1, AuditParts DEF TrailInv, Parts, TypeOK
    <2>5. \A v \in Users \ {u} : MemberExplained(v)' /\ About(v)' = About(v)
      BY <2>1, <2>2, <2>3, <2>4, MemberKept DEF e
    <2>6. /\ \A k \in DOMAIN invitations' : InvitationExplained(k)'
          /\ \A k \in DOMAIN invitations : InvitationMoves(k)
      BY <1>1, <1>4, <2>1, <2>2, <2>4, SettledExplained DEF e
    <2>7. NameExplained' /\ Renames' = Renames
      BY <1>4, <2>1, <2>2, <2>4, NameKept DEF e
    <2>8. About(u) = {} /\ Seed[u].version = 0
      BY <1>1, <1>2, <2>4, AbsentUnwritten
    <2>9. RoleEvents(u)' = {new} /\ StatusEvents(u)' = {new}
      <3>1. RoleEvents(u) = {} /\ StatusEvents(u) = {}
        BY <2>8 DEF About
      <3>2. /\ FreshAbout({"INVITATION_ACCEPTED", "MEMBER_ROLE_CHANGED"}, u) = {new}
            /\ FreshAbout({"INVITATION_ACCEPTED", "MEMBER_DEACTIVATED", "MEMBER_REACTIVATED"}, u) = {new}
        BY <2>1, <2>2 DEF FreshAbout, e
      <3> QED BY <2>1, <3>1, <3>2, MemberTrailGrows
    <2>10. MemberExplained(u)'
      <3>1. Latest({new}) = new
        <4>1. Latest({} \cup {new}) = new
          BY <2>1, <2>2, LatestNew
        <4> QED BY <4>1
      <3>2. Cardinality({events'[k].by : k \in {new} \cup {new}}) = 1
        <4>1. {events'[k].by : k \in {new} \cup {new}} = {r}
          BY <2>2 DEF e
        <4> QED BY <4>1, FS_Singleton
      <3>3. members'[u] = [status |-> "ACTIVE", role |-> events'[new].role, version |-> 0 + 1]
        BY <2>2, <2>3 DEF NewMembership, e
      <3> QED BY <2>2, <2>8, <2>9, <3>1, <3>2, <3>3 DEF MemberExplained, MemberFromEvents, e
    <2>11. InTime'
      <3>1. \A a \in InvitationEvents(n) : events[a].at <= now[r]
        BY <1>1, <1>2 DEF TrailInv, SeenInOrder, SawAll
      <3>2. \A a \in DOMAIN events : SameSubject(events[a], e) => a \in InvitationEvents(n)
        BY <2>2, <2>8, AboutIs DEF SameSubject, InvitationEvents
      <3> QED BY <1>1, <2>1, <2>2, <2>4, <3>1, <3>2, TimeKept DEF e
    <2>12. Parts'
      BY <2>5, <2>6, <2>7, <2>10, <2>11 DEF Parts
    <2>13. DOMAIN invitations' = DOMAIN invitations /\ invitations' \in Seq(Invitation)
      BY <1>1, <1>4, Settling
    <2>14. RowsFit'
      <3>1. members'[u].status # "ABSENT"
        BY <2>3 DEF NewMembership
      <3> QED BY <2>1, <2>3, <2>4, <2>13, <3>1, RowsStillFit
    <2>15. Moves
      <3>1. members[u] = NoMembership
        BY <1>2, <2>4 DEF RowsFit
      <3>2. members'[u].version > members[u].version
        BY <2>3, <3>1 DEF NewMembership, NoMembership
      <3> QED BY <1>4, <2>3, <2>5, <2>6, <2>7, <3>2 DEF Moves, NameMoves, MemberMoves
    <2>16. /\ Len(invitations') = Len(invitations) /\ Len(invitations) \in Nat
           /\ n <= Len(invitations) /\ m.kind # "SIGN_UP"
      BY <1>1, <2>13 DEF TypeOK, TokenKind
    <2>17. phase'[r] = "done" /\ \A q \in Requests \ {r} : phase'[q] = phase[q]
      BY <1>1, <1>4 DEF Finish, TypeOK
    <2>18. \A k \in Fresh : /\ events'[k].at = now[r] /\ events'[k].by = r
                            /\ events'[k].invitation <= Len(invitations')
      BY <2>1, <2>2, <2>16 DEF e
    <2> QED BY <2>1, <2>12, <2>14, <2>15, <2>16, <2>17, <2>18, HolderAudit
  <1> QED BY <1>3, <1>4 DEF Join

(* The trail is empty in the beginning, and so is what it has to explain.  *)
LEMMA InitAudit == Init => TrailInv
  <1> SUFFICES ASSUME Init PROVE TrailInv
    OBVIOUS
  <1>1. TypeOK /\ events = <<>> /\ invitations = <<>> /\ members = Seed
    BY InitInv DEF Init, IInv
  <1>2. RowsFit /\ EventsFit
    <2>1. \A u \in Users : Seed[u] = NoMembership \/ \E role \in Roles : Seed[u] = NewMembership(role)
      BY SeedAssumption
    <2>2. ASSUME NEW u \in Users PROVE Seed[u] = NoMembership \/ Seed[u].status # "ABSENT"
      <3>1. CASE Seed[u] = NoMembership
        BY <3>1
      <3>2. CASE \E role \in Roles : Seed[u] = NewMembership(role)
        <4> PICK role \in Roles : Seed[u] = NewMembership(role)
          BY <3>2
        <4>1. NewMembership(role).status = "ACTIVE"
          BY DEF NewMembership
        <4> QED BY <4>1
      <3> QED BY <2>1, <3>1, <3>2
    <2>3. Len(events) = 0
      BY <1>1
    <2>4. EventsFit
      BY <2>3 DEF EventsFit, TypeOK
    <2>5. DOMAIN invitations = {}
      BY <1>1
    <2>6. \A u \in Users : ~Member(u) => members[u] = NoMembership
      BY <1>1, <2>2 DEF Member
    <2> QED BY <2>4, <2>5, <2>6 DEF RowsFit
  <1>3. SeenInOrder
    BY DEF Init, SeenInOrder
  <1>4. Parts
    <2>1. \A u : RoleEvents(u) = {} /\ StatusEvents(u) = {}
      BY <1>1 DEF RoleEvents, StatusEvents, Joined, EventsAbout
    <2>2. Cardinality({}) = 0 /\ Renames = {}
      BY <1>1, FS_EmptySet DEF Renames
    <2>3. ASSUME NEW u \in Users PROVE MemberExplained(u)
      <3>1. {events[n].by : n \in {} \cup {}} = {}
        OBVIOUS
      <3>2. Seed[u] = [status |-> Seed[u].status, role |-> Seed[u].role,
                       version |-> Seed[u].version + 0]
        BY SeedVersions DEF Membership
      <3> QED BY <1>1, <2>1, <2>2, <3>1, <3>2 DEF MemberExplained, MemberFromEvents
    <2>4. NameExplained
      BY <2>2 DEF Init, NameExplained
    <2> QED BY <1>1, <2>3, <2>4 DEF Parts, InTime
  <1> QED BY <1>1, <1>2, <1>3, <1>4, AuditParts DEF TrailInv, TypeOK

(* Every step keeps the trail complete.                                    *)
LEMMA NextAudit == ASSUME IInv, IInv', TrailInv, [Next]_vars PROVE TrailInv'
  <1>1. ASSUME NEW r \in Requests, Commit(r) PROVE TrailInv'
    <2>1. phase[r] = "commit" /\ UNCHANGED <<clock, mailed, request, now, loaded>>
      BY <1>1 DEF Commit
    <2>2. CASE SignUp(r)
      BY <2>1, <2>2, EmptyCommit DEF SignUp
    <2> QED BY <1>1, <2>1, <2>2, RenameAudit, UpdateMemberAudit, InviteAudit, RevokeAudit, JoinAudit
            DEF Commit
  <1>2. ASSUME NEW r \in Requests,
               \/ Arrive(r) \/ Authenticate(r) \/ LockOrganization(r) \/ Recheck(r)
               \/ LockInvitation(r) \/ Check(r) \/ Deliver(r) \/ Rollback(r)
        PROVE  TrailInv'
    BY <1>2, UnwrittenAudit
  <1>3. CASE Tick \/ UNCHANGED vars
    <2>1. /\ UNCHANGED <<tables, request, phase, now, loaded>>
          /\ clock' = clock \/ clock' = clock + 1
      BY <1>3 DEF Tick, vars
    <2>2. clock \in Nat
      BY TimeAssumption DEF IInv, TypeOK
    <2>3. UNCHANGED <<organization, members, invitations, events, request>>
      BY <2>1, TablesKept
    <2> QED BY <2>1, <2>2, <2>3, QuietAudit
  <1> QED BY <1>1, <1>2, <1>3 DEF Next, Step

-----------------------------------------------------------------------------
(* Who waits for whom.                                                     *)

(* Every lock is taken behind the organization's.                          *)
LocksBehindIt == \A r \in Requests : locks[r] # {} => Guarded(r)

(* The one who holds the organization's lock reaches every row it locks    *)
(* afterwards: nobody else has any.                                        *)
LEMMA WaitingIsBlocking ==
  ASSUME NEW r \in Requests, \A q \in Requests : ~WaitsFor(r, q)
  PROVE  /\ phase[r] = "organization" => Free(OrganizationLock, r)
         /\ phase[r] = "invitation" => Free(request[r].invitation, r)
  BY DEF WaitsFor, Free

(* A request that takes a step has locked the organization first.          *)
LEMMA StepBehindIt ==
  ASSUME IInv, LocksBehindIt, NEW r \in Requests, Arrive(r) \/ Step(r) \/ Rollback(r)
  PROVE  /\ locks'[r] # {} => Guarded(r)'
         /\ \A q \in Requests \ {r} : locks'[q] = locks[q]
  <1>1. TypeOK /\ Fits(r) /\ (locks[r] # {} => Guarded(r)) /\ request' = request
    BY StepsMoveOne DEF IInv, PhaseFits, LocksBehindIt
  <1>2. ASSUME NEW answer, Finish(r, answer)
        PROVE  locks'[r] = {} /\ \A q \in Requests \ {r} : locks'[q] = locks[q]
    BY <1>1, <1>2 DEF Finish, TypeOK
  <1>3. ASSUME NEW p, Goto(r, p)
        PROVE  locks' = locks /\ phase'[r] = p
    BY <1>1, <1>3 DEF Goto, TypeOK
  <1>4. ASSUME NEW p, NEW x, GotoHolding(r, p, x)
        PROVE  phase'[r] = p /\ \A q \in Requests \ {r} : locks'[q] = locks[q]
    BY <1>1, <1>4 DEF GotoHolding, TypeOK
  <1>5. CASE Arrive(r)
    <2>1. locks' = locks
      BY <1>3, <1>5 DEF Arrive
    <2>2. locks[r] = {}
      BY <1>1, <1>5 DEF Arrive, Guarded
    <2> QED BY <2>1, <2>2
  <1>6. CASE Authenticate(r)
    <2>1. locks[r] = {}
      BY <1>1, <1>6 DEF Authenticate, Guarded
    <2>2. Goto(r, "organization") \/ Finish(r, "rejected")
      BY <1>6 DEF Authenticate, Refuse
    <2> QED BY <2>1, <2>2, <1>2, <1>3
  <1>7. CASE LockOrganization(r)
    <2>1. \E p \in {"invitation", "recheck"} : GotoHolding(r, p, OrganizationLock)
      BY <1>7 DEF LockOrganization
    <2>2. phase'[r] \in {"invitation", "recheck"}
          /\ \A q \in Requests \ {r} : locks'[q] = locks[q]
      BY <2>1, <1>4
    <2> QED BY <2>2 DEF Guarded
  <1>8. CASE Recheck(r)
    <2>1. request[r].kind # "SIGN_UP"
      BY <1>1, <1>8 DEF Recheck, Fits, AdminKind
    <2>2. Finish(r, "rejected") \/ Goto(r, "invitation") \/ Goto(r, "checks")
      BY <1>8 DEF Recheck, Refuse
    <2> QED BY <2>1, <2>2, <1>1, <1>2, <1>3 DEF Guarded
  <1>9. CASE LockInvitation(r)
    <2>1. request[r].kind # "SIGN_UP"
      BY <1>1, <1>9 DEF LockInvitation, Fits, TokenKind
    <2>2. Finish(r, "rejected")
          \/ \E p \in {"commit", "checks"} : GotoHolding(r, p, request[r].invitation)
      BY <1>9 DEF LockInvitation, Refuse
    <2> QED BY <2>1, <2>2, <1>1, <1>2, <1>4 DEF Guarded
  <1>10. CASE Check(r)
    <2>1. Goto(r, "commit") \/ Finish(r, "ok") \/ Finish(r, "rejected")
      BY <1>10 DEF Check, Refuse
    <2>2. locks[r] # {} => request[r].kind # "SIGN_UP"
      BY <1>1, <1>10 DEF Check, Guarded
    <2> QED BY <2>1, <2>2, <1>1, <1>2, <1>3 DEF Guarded
  <1>11. CASE Commit(r)
    <2>1. Finish(r, "ok") \/ Finish(r, "error") \/ locks' = [locks EXCEPT ![r] = {}]
      BY <1>11 DEF Commit, Rename, UpdateMember, Invite, Revoke, Join, SignUp
    <2> QED BY <2>1, <1>1, <1>2 DEF TypeOK
  <1>12. CASE Deliver(r) \/ Rollback(r)
    BY <1>2, <1>12 DEF Deliver, Rollback
  <1> QED BY <1>5, <1>6, <1>7, <1>8, <1>9, <1>10, <1>11, <1>12 DEF Step

(* Every step keeps it so.                                                 *)
LEMMA NextBehindIt == ASSUME IInv, LocksBehindIt, [Next]_vars PROVE LocksBehindIt'
  <1>1. CASE UNCHANGED vars \/ Tick
    BY <1>1 DEF vars, tables, Tick, LocksBehindIt, Guarded
  <1>2. ASSUME NEW r \in Requests, Arrive(r) \/ Step(r) \/ Rollback(r) PROVE LocksBehindIt'
    <2>1. request' = request /\ \A q \in Requests \ {r} : phase'[q] = phase[q]
      BY <1>2, StepsMoveOne
    <2>2. /\ locks'[r] # {} => Guarded(r)'
          /\ \A q \in Requests \ {r} : locks'[q] = locks[q]
      BY <1>2, StepBehindIt
    <2> QED BY <2>1, <2>2 DEF LocksBehindIt, Guarded
  <1> QED BY <1>1, <1>2 DEF Next

(* So nobody ever waits for an invitation, and whoever is waited for at    *)
(* the organization does not wait itself.                                  *)
LEMMA NoCircle == ASSUME IInv, LocksBehindIt PROVE NoCircularWait
  <1>1. ASSUME NEW r \in Requests, NEW q \in Requests, WaitsFor(r, q)
        PROVE  phase[r] = "organization" /\ Guarded(q)
    <2>1. Guarded(q) /\ q # r
      BY <1>1 DEF WaitsFor, LocksBehindIt
    <2>2. ~Guarded(r)
      BY <2>1 DEF IInv, OneHolder
    <2> QED BY <1>1, <2>1, <2>2 DEF WaitsFor, Guarded
  <1> SUFFICES ASSUME NEW S \in SUBSET Requests, S # {},
                      \A r \in S : \E q \in S : WaitsFor(r, q)
               PROVE  FALSE
    BY <1>1 DEF NoCircularWait, Guarded
  <1>2. PICK r \in S, q \in S, p \in S : WaitsFor(r, q) /\ WaitsFor(q, p)
    OBVIOUS
  <1> QED BY <1>1, <1>2 DEF Guarded

-----------------------------------------------------------------------------
(* What follows for the service.                                           *)

(* Every request finds, at its commit, what it has checked.                *)
THEOREM GovernanceInvariant == Spec => []IInv
  BY InitInv, NextInv, PTL DEF Spec

(* Rows, events and answers are always of the shape the schema gives them. *)
THEOREM TypeCorrect == Spec => []TypeOK
  <1>1. IInv => TypeOK
    BY DEF IInv
  <1> QED BY <1>1, GovernanceInvariant, PTL

(* However many administrators demote, archive or promote one another at   *)
(* once, the organization keeps one that is active.                        *)
THEOREM AnAdminAlwaysRemains == Spec => []AnAdminRemains
  <1>1. IInv => AnAdminRemains
    BY DEF IInv
  <1> QED BY <1>1, GovernanceInvariant, PTL

(* No member has a pending invitation, and no address has two.             *)
THEOREM PendingAreForOutsiders == Spec => []InvitationsAreForOutsiders
  <1>1. IInv => InvitationsAreForOutsiders
    BY DEF IInv
  <1> QED BY <1>1, GovernanceInvariant, PTL

(* The only answer a constraint of the database causes is that of an       *)
(* invited registration whose address has come to have an account.         *)
THEOREM OnlyRacesFail == Spec => []OnlyAddressRacesFail
  <1>1. IInv => OnlyAddressRacesFail
    BY DEF IInv
  <1> QED BY <1>1, GovernanceInvariant, PTL

(* Seen from outside, an organization changes only as the roster allows:   *)
(* every committed change is one act of somebody entitled to it at that    *)
(* moment, whatever was decided between the check and the lock.            *)
THEOREM RosterImplemented == Spec => ImplementsRoster
  <1>1. Init => StaysEntitled
    BY DEF Init, StaysEntitled
  <1> QED BY <1>1, InitInv, NextInv, EntitledInv, InitRoster, NextRoster, PTL
          DEF Spec, ImplementsRoster, R!Spec

(* The rows of an organization, its memberships and its invitations can be *)
(* read off its audit trail, versions included, and the events about one   *)
(* subject are in the order of their times.                                *)
THEOREM TrailIsComplete == Spec => []AuditExplainsState
  <1>1. TrailInv => AuditExplainsState
    BY DEF TrailInv
  <1> QED BY <1>1, InitInv, NextInv, InitAudit, NextAudit, PTL DEF Spec

(* Transactions never wait for each other in a circle, nor for an ended    *)
(* one: in every group of requests, whatever they are about, one waits for *)
(* nobody in the group.  The organization is locked before its invitations.*)
THEOREM CirclesDoNotForm == Spec => []NoCircularWait
  <1>1. Init => LocksBehindIt
    BY DEF Init, LocksBehindIt
  <1> QED BY <1>1, InitInv, NextInv, NextBehindIt, NoCircle, PTL DEF Spec
=============================================================================
