---------------------------- MODULE MCGovernance ----------------------------
(***************************************************************************)
(* Finite instances of Governance.                                         *)
(***************************************************************************)
EXTENDS GovernanceRefinement, TLC

CONSTANTS ann, bob, cat, dan, acme, apex, r1, r2, r3, r4

Filler == [kind |-> "RENAME", actor |-> ann, user |-> ann, name |-> acme,
           role |-> Unchanged, status |-> Unchanged, seen |-> 1, invitation |-> 0]
RenameBy(actor, name, seen) ==
    [Filler EXCEPT !.actor = actor, !.name = name, !.seen = seen]
UpdateBy(actor, user, role, status, seen) ==
    [Filler EXCEPT !.kind = "UPDATE_MEMBER", !.actor = actor, !.user = user,
                   !.role = role, !.status = status, !.seen = seen]
InviteBy(actor, user, role) ==
    [Filler EXCEPT !.kind = "INVITE", !.actor = actor, !.user = user, !.role = role]
RevokeBy(actor, n) ==
    [Filler EXCEPT !.kind = "REVOKE", !.actor = actor, !.invitation = n]
AcceptBy(actor, n) ==
    [Filler EXCEPT !.kind = "ACCEPT", !.actor = actor, !.invitation = n]
RegisterWith(n) == [Filler EXCEPT !.kind = "REGISTER", !.invitation = n]
SignUpOf(user) == [Filler EXCEPT !.kind = "SIGN_UP", !.user = user]

Four(A, B, C, D) ==
    {(r1 :> a) @@ (r2 :> b) @@ (r3 :> c) @@ (r4 :> d) : a \in A, b \in B, c \in C, d \in D}

(* Two administrators and an AP manager.                                   *)
TwoAdmins == [u \in Users |->
    CASE u \in {ann, bob} -> NewMembership("ORG_ADMIN")
      [] u = cat -> NewMembership("AP_MANAGER")
      [] OTHER -> NoMembership]
(* The administrators turn on each other, while one promotes the manager   *)
(* and the manager, once promoted, acts.                                   *)
AdminRaces ==
         Four({UpdateBy(ann, bob, "MEMBER", Unchanged, 1), UpdateBy(ann, ann, Unchanged, "ARCHIVED", 1)},
              {UpdateBy(bob, ann, "AP_MANAGER", "ARCHIVED", 1), UpdateBy(bob, bob, "MEMBER", Unchanged, 1)},
              {UpdateBy(ann, cat, "ORG_ADMIN", Unchanged, 1)},
              {UpdateBy(cat, ann, "ORG_ADMIN", "ACTIVE", 2), UpdateBy(cat, bob, Unchanged, "ARCHIVED", 1)})
    \cup Four({UpdateBy(ann, bob, "MEMBER", Unchanged, 1)},
              {UpdateBy(bob, ann, "AP_MANAGER", "ARCHIVED", 1)},
              {RenameBy(bob, apex, 1)}, {RenameBy(ann, acme, 1), RenameBy(ann, apex, 2)})

(* One invitation is made twice, revoked, accepted and used to register    *)
(* while its address signs up on its own.                                  *)
InvitationRaces ==
    Four({InviteBy(ann, dan, "MEMBER")},
         {InviteBy(ann, dan, "ORG_ADMIN"), RevokeBy(ann, 1), AcceptBy(dan, 1)},
         {AcceptBy(dan, 1), RegisterWith(1), AcceptBy(cat, 1)},
         {RegisterWith(1), SignUpOf(dan), InviteBy(ann, dan, "AP_MANAGER"),
          UpdateBy(ann, dan, Unchanged, "ARCHIVED", 1)})

Changes == AdminRaces \cup InvitationRaces
=============================================================================
