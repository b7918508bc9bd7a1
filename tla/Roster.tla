------------------------------- MODULE Roster -------------------------------
(***************************************************************************)
(* What organization governance promises its users, without requests,      *)
(* locks or events: a roster that only its active administrators change,   *)
(* one act at a time, each entitled at the moment it takes effect, and     *)
(* that a person joins by taking up the one offer made to them.            *)
(***************************************************************************)
EXTENDS Policy

CONSTANTS Users, Names, FirstName, Seed

VARIABLES
    name,       \* the organization's display name
    members,    \* who belongs to it, in which role and status
    offers,     \* what is offered to outsiders: a user and a role
    author      \* who made the last change

vars == <<name, members, offers, author>>

Admins(roster) ==
    {u \in Users : roster[u].status = "ACTIVE" /\ roster[u].role = "ORG_ADMIN"}
OfferedTo(u) == {offer \in offers : offer.user = u}

Init ==
    /\ name = FirstName
    /\ members = Seed
    /\ offers = {}
    /\ author = "nobody"

Rename(admin) ==
    /\ Permits(members[admin], "MANAGE_ORG_SETTINGS")
    /\ author' = admin
    /\ name' \in Names
    /\ UNCHANGED <<members, offers>>

(* A role or a status changes; an administrator remains.                   *)
Change(admin, u) ==
    /\ Permits(members[admin], "MANAGE_ORG_MEMBERS")
    /\ members[u].status # "ABSENT"
    /\ \E role \in Roles, status \in {"ACTIVE", "ARCHIVED"} :
        members' = [members EXCEPT ![u] =
            [status |-> status, role |-> role, version |-> @.version + 1]]
    /\ Admins(members') # {}
    /\ author' = admin
    /\ UNCHANGED <<name, offers>>

Offer(admin, u, role) ==
    /\ Permits(members[admin], "MANAGE_ORG_INVITATIONS")
    /\ members[u].status = "ABSENT" /\ OfferedTo(u) = {}
    /\ offers' = offers \cup {[user |-> u, role |-> role]}
    /\ author' = admin
    /\ UNCHANGED <<name, members>>

Withdraw(admin, offer) ==
    /\ Permits(members[admin], "MANAGE_ORG_INVITATIONS")
    /\ offers' = offers \ {offer}
    /\ author' = admin
    /\ UNCHANGED <<name, members>>

Join(offer) ==
    /\ members[offer.user].status = "ABSENT"
    /\ members' = [members EXCEPT ![offer.user] = NewMembership(offer.role)]
    /\ offers' = offers \ {offer}
    /\ author' = offer.user
    /\ UNCHANGED name

Next ==
    \/ \E admin \in Users :
        \/ Rename(admin)
        \/ \E u \in Users : Change(admin, u) \/ \E role \in Roles : Offer(admin, u, role)
        \/ \E offer \in offers : Withdraw(admin, offer)
    \/ \E offer \in offers : Join(offer)

Spec == Init /\ [][Next]_vars
=============================================================================
